---- MODULE Spec2Model ----
(***************************************************************************)
(* A model of the PII leakage scanner: the line scanner                    *)
(* (pii_detection/file_scanner.py), the regex detector                     *)
(* (pii_detection/pii_detector.py), the classification policy              *)
(* (risk_scoring/pii_classification.py) and the risk aggregator            *)
(* (risk_scoring/pii_risk_scoring.py).                                     *)
(*                                                                         *)
(* Text is a sequence of one-character strings.  Positions are 1-based and *)
(* a span <<s, e>> covers positions s .. e-1 (Python's span shifted by 1). *)
(* A float is a record: a finite value is an exact reduced fraction n/d,   *)
(* and NaN and the two infinities are values of their own.                 *)
(***************************************************************************)
EXTENDS Integers, Sequences, FiniteSets, TLC

(***************************************************************************)
(* Bounds of the model.                                                    *)
(***************************************************************************)
\* The longest input text, counted in tokens of TextTokens.
MaxTokens == 4
\* The longest list of findings handed to the aggregator.
MaxItems == 3
\* The most policy dicts alive at once (DEFAULT_POLICY included).
MaxPolicies == 3
\* The longest list of items handed to the classification functions.
MaxClassified == 2
\* The most paths handed to scan_paths in one call.
MaxSources == 3
\* The most add calls made on the TTL store in one run.
MaxAdds == 2
\* The last reading of the clock, in seconds.
MaxTime == 3
\* The most container objects built before sanitize_for_log is called.
MaxCells == 3

VARIABLES
    pc,          \* position of the pipeline / of the harness driving a function
    data,        \* the uploaded content (decoded characters)
    records,     \* LineRecord sequence produced by the scanner
    matches,     \* PiiMatch sequence produced by the detector
    classified,  \* classified dictionaries (also: the findings being scored)
    result,      \* outcome of the last score_pii_findings call
    prev_result, \* outcome of the call before the last finding was appended
    thresholds,  \* the thresholds mapping in use (insertion-ordered pairs)
    default_confidence, \* the default_confidence argument in use
    label_score, \* the score handed to risk_label_for_score
    label        \* the label risk_label_for_score returned

\* The policy mappings alive in the program and the last call made on them.
VARIABLES
    policy_objects, \* the policy dicts, by identity; the first is DEFAULT_POLICY
    policy_call     \* the last call of the classification module and its outcome

coreVars == <<pc, data, records, matches, classified, result, prev_result,
              thresholds, default_confidence, label_score, label>>

policyVars == <<policy_objects, policy_call>>

\* The files on disk and the last call of the scanner.
VARIABLES
    files,      \* path -> [exists, content]: the files the scanner can open
    scan_call   \* the last scanner call, its arguments and what it yielded

scanVars == <<files, scan_call>>

\* utils/temp_storage.py: the module's list, the clock, and the callers.
VARIABLES
    _storage,   \* the module-level list of entries
    clock,      \* what time.time() returns now
    uuid_count, \* how many ids uuid.uuid4() has produced
    store_call, \* the last completed call on the store and what it returned
    added,      \* history: the add calls that have returned, in order
    threads     \* per thread: the store call it is inside and its locals

storeVars == <<_storage, clock, uuid_count, store_call, added, threads>>

\* utils/log_sanitize.py: the objects alive in the program and the last call.
VARIABLES
    log_heap,   \* the container objects, by identity
    log_call    \* the last sanitize_for_log call: argument, heap before, result

logVars == <<log_heap, log_call>>

\* risk_scoring/pii_spacy_validator.py: the last validation of one finding.
VARIABLES
    validator_call \* the finding, its sentence's signals and the outcome

validatorVars == <<validator_call>>

\* app.py: what Streamlit keeps for each browser session between reruns.
VARIABLES
    session_state, \* per session: what st.session_state holds under SCAN_ID_KEY
    shown,         \* per session: what the last finished rerun put on the page
    overlapped     \* history: two sessions' reruns have run at the same time

appVars == <<session_state, shown, overlapped>>

vars == <<coreVars, policyVars, scanVars, storeVars, logVars, validatorVars, appVars>>

\* What a run of one component leaves alone: the state of the others.
allButCore == <<policyVars, scanVars, storeVars, logVars, validatorVars, appVars>>
allButPolicy == <<coreVars, scanVars, storeVars, logVars, validatorVars, appVars>>
allButScan == <<coreVars, policyVars, storeVars, logVars, validatorVars, appVars>>
allButStore == <<coreVars, policyVars, scanVars, logVars, validatorVars, appVars>>
allButLog == <<policyVars, scanVars, storeVars, validatorVars, appVars>>
allButValidator == <<policyVars, scanVars, storeVars, logVars, appVars>>
allButApp == <<policyVars, scanVars, logVars, validatorVars>>

\* The components a run does not touch stay as they are before any call.
PolicyIdle == policy_objects = <<>> /\ policy_call = <<>>
ScanIdle == files = <<>> /\ scan_call = <<>>
StoreIdle ==
    /\ _storage = <<>>
    /\ clock = 0
    /\ uuid_count = 0
    /\ store_call = <<>>
    /\ added = <<>>
    /\ threads = <<>>
LogIdle == log_heap = <<>> /\ log_call = <<>>
ValidatorIdle == validator_call = <<>>
AppIdle == session_state = <<>> /\ shown = <<>> /\ overlapped = FALSE

(***************************************************************************)
(* Characters and the character classes of the three patterns.             *)
(***************************************************************************)
Digits == {"0", "1", "2", "3", "4", "5", "6", "7", "8", "9"}

LowerLetters ==
    {"a", "b", "c", "d", "e", "f", "g", "h", "i", "j", "k", "l", "m",
     "n", "o", "p", "q", "r", "s", "t", "u", "v", "w", "x", "y", "z"}

UpperLetters ==
    {"A", "B", "C", "D", "E", "F", "G", "H", "I", "J", "K", "L", "M",
     "N", "O", "P", "Q", "R", "S", "T", "U", "V", "W", "X", "Y", "Z"}

\* [a-z] under re.IGNORECASE
Letters == LowerLetters \cup UpperLetters

\* \w
WordChars == Letters \cup Digits \cup {"_"}

\* \s
SpaceChars == {" ", "\t", "\n", "\r", "\f"}

\* [a-z0-9._%+\-] under re.IGNORECASE
EmailLocalChars == Letters \cup Digits \cup {".", "_", "%", "+", "-"}

\* [a-z0-9.\-] under re.IGNORECASE
EmailDomainChars == Letters \cup Digits \cup {".", "-"}

\* [\s\-.()]
PhoneSepChars == SpaceChars \cup {"-", ".", "(", ")"}

\* [\d\s\-.()]
PhoneBodyChars == Digits \cup PhoneSepChars

\* [6-9]
MobileLead == {"6", "7", "8", "9"}

\* [2-9]
AadhaarLead == {"2", "3", "4", "5", "6", "7", "8", "9"}

\* [\s\-]
AadhaarSepChars == SpaceChars \cup {"-"}

(***************************************************************************)
(* Regex primitives.                                                       *)
(***************************************************************************)
\* The character at position p, or "" outside the text (in no class).
At(line, p) == IF p >= 1 /\ p <= Len(line) THEN line[p] ELSE ""

\* \b before position p: exactly one of the two neighbours is a word character.
WordBoundary(line, p) == (At(line, p - 1) \in WordChars) # (At(line, p) \in WordChars)

\* (?<!\w) before position p.
NotWordBehind(line, p) == At(line, p - 1) \notin WordChars

\* (?!\w) at position p.
NotWordAhead(line, p) == At(line, p) \notin WordChars

\* The end of the longest run of characters of cls starting at p: what a greedy
\* cls* consumes.
RECURSIVE RunEnd(_, _, _)
RunEnd(line, cls, p) ==
    IF At(line, p) \in cls THEN RunEnd(line, cls, p + 1) ELSE p

\* cls{n} at p: n characters of cls.
AllIn(line, cls, p, n) == \A k \in p .. (p + n - 1) : At(line, k) \in cls

Max(S) == CHOOSE x \in S : \A y \in S : y <= x

Min2(a, b) == IF a <= b THEN a ELSE b

\* The first element of a sequence of candidate ends that is not 0, or 0.
RECURSIVE FirstNonZero(_)
FirstNonZero(s) ==
    IF s = <<>> THEN 0
    ELSE IF Head(s) # 0 THEN Head(s) ELSE FirstNonZero(Tail(s))

(***************************************************************************)
(* EMAIL_RE  \b[a-z0-9._%+\-]+@[a-z0-9.\-]+\.[a-z]{2,}\b                    *)
(* The end (exclusive) of the match starting at p, or 0 when none starts   *)
(* there.  The local part is the whole run before "@" (a shorter one is    *)
(* not followed by "@").  The domain is greedy: the engine gives back      *)
(* characters until the rest is ".", two or more letters and a boundary,   *)
(* so the last such "." of the domain run wins; the letters after it are   *)
(* taken whole (a boundary cannot fall between two letters).               *)
(***************************************************************************)
EmailEndAt(line, p) ==
    LET at  == RunEnd(line, EmailLocalChars, p)
        d0  == at + 1
        dr  == RunEnd(line, EmailDomainChars, d0)
        Tld(j) == RunEnd(line, Letters, j + 1)
        dots == {j \in (d0 + 1) .. (dr - 1) :
                    /\ line[j] = "."
                    /\ Tld(j) - (j + 1) >= 2
                    /\ WordBoundary(line, Tld(j))}
    IN  IF /\ WordBoundary(line, p)
           /\ at > p
           /\ At(line, at) = "@"
           /\ dots # {}
        THEN Tld(Max(dots))
        ELSE 0

(***************************************************************************)
(* AADHAAR_RE  (?<!\w)(?!91\d{10}\b)([2-9]\d{3}[\s\-]?\d{4}[\s\-]?\d{4})(?!\w) *)
(* An optional separator is taken when it is there: without it the next    *)
(* character would have to be a digit and is the separator.                *)
(***************************************************************************)
\* A faulty guard that counts eleven digits after "91" instead of ten: it no
\* longer recognises a 12-digit country-code number.
CountryCodeGuardElevenDigits(line, p) ==
    /\ At(line, p) = "9"
    /\ At(line, p + 1) = "1"
    /\ AllIn(line, Digits, p + 2, 11)
    /\ WordBoundary(line, p + 13)

\* (?!91\d{10}\b) fails at p: "91", ten digits and a word boundary follow.
CountryCodeGuard(line, p) ==
    /\ At(line, p) = "9"
    /\ At(line, p + 1) = "1"
    /\ AllIn(line, Digits, p + 2, 10)
    /\ WordBoundary(line, p + 12)

OptSep(line, p) == IF At(line, p) \in AadhaarSepChars THEN p + 1 ELSE p

AadhaarEndAt(line, p) ==
    LET g2 == OptSep(line, p + 4)
        g3 == OptSep(line, g2 + 4)
    IN  IF /\ NotWordBehind(line, p)
           /\ ~CountryCodeGuard(line, p)
           /\ At(line, p) \in AadhaarLead
           /\ AllIn(line, Digits, p + 1, 3)
           /\ AllIn(line, Digits, g2, 4)
           /\ AllIn(line, Digits, g3, 4)
           /\ NotWordAhead(line, g3 + 4)
        THEN g3 + 4
        ELSE 0

(***************************************************************************)
(* PHONE_RE.  The three alternatives of the number, tried in order at q;   *)
(* each must be followed by (?!\w), else the engine moves to the next.     *)
(***************************************************************************)
\* [6-9]\d{2}[\s\-.()]*\d{3}[\s\-.()]*\d{4}: a separator run is taken whole,
\* since a digit must follow it.
MobileGroupedEnd(line, q) ==
    LET b == RunEnd(line, PhoneSepChars, q + 3)
        c == RunEnd(line, PhoneSepChars, b + 3)
    IN  IF /\ At(line, q) \in MobileLead
           /\ AllIn(line, Digits, q + 1, 2)
           /\ AllIn(line, Digits, b, 3)
           /\ AllIn(line, Digits, c, 4)
           /\ NotWordAhead(line, c + 4)
        THEN c + 4
        ELSE 0

\* [6-9]\d{9}
MobilePlainEnd(line, q) ==
    IF /\ At(line, q) \in MobileLead
       /\ AllIn(line, Digits, q + 1, 9)
       /\ NotWordAhead(line, q + 10)
    THEN q + 10
    ELSE 0

\* \d[\d\s\-.()]{6,}\d: the greedy middle gives characters back one at a time,
\* so the match ends at the last digit of the run that leaves six or more
\* characters in the middle and is followed by (?!\w).
GeneralEnd(line, q) ==
    LET r == RunEnd(line, PhoneBodyChars, q + 1)
        ends == {e \in (q + 8) .. r :
                    /\ line[e - 1] \in Digits
                    /\ NotWordAhead(line, e)}
    IN  IF At(line, q) \in Digits /\ ends # {} THEN Max(ends) ELSE 0

PhoneNumberEnd(line, q) ==
    FirstNonZero(<<MobileGroupedEnd(line, q), MobilePlainEnd(line, q),
                   GeneralEnd(line, q)>>)

\* (?:0[\s\-.()]*)? at q, then the number: with the trunk prefix first, then
\* without it.
PhoneTrunkEnd(line, q) ==
    FirstNonZero(<<
        IF At(line, q) = "0"
        THEN PhoneNumberEnd(line, RunEnd(line, PhoneSepChars, q + 1))
        ELSE 0,
        PhoneNumberEnd(line, q)>>)

\* (?:\+?\s*\d{1,3}[\s\-.()]*)? at p, then the rest: the country code with
\* three, two, one digits (greedy), then no country code at all.
PhoneEndAt(line, p) ==
    LET s == RunEnd(line, SpaceChars, IF At(line, p) = "+" THEN p + 1 ELSE p)
        n == Min2(3, RunEnd(line, Digits, s) - s)
        Code(k) == IF k <= n
                   THEN PhoneTrunkEnd(line, RunEnd(line, PhoneSepChars, s + k))
                   ELSE 0
    IN  IF NotWordBehind(line, p)
        THEN FirstNonZero(<<Code(3), Code(2), Code(1), PhoneTrunkEnd(line, p)>>)
        ELSE 0

(***************************************************************************)
(* finditer: the non-overlapping matches from left to right, as spans.     *)
(***************************************************************************)
PatternEndAt(kind, line, p) ==
    CASE kind = "email"   -> EmailEndAt(line, p)
      [] kind = "aadhaar" -> AadhaarEndAt(line, p)
      [] kind = "phone"   -> PhoneEndAt(line, p)

RECURSIVE FindIter(_, _, _)
FindIter(kind, line, p) ==
    IF p > Len(line) THEN <<>>
    ELSE LET e == PatternEndAt(kind, line, p)
         IN  IF e = 0 THEN FindIter(kind, line, p + 1)
             ELSE <<(<<p, e>>)>> \o FindIter(kind, line, e)

(***************************************************************************)
(* Python values.  Every value has the same shape: k is the kind ("fin" a  *)
(* finite float n/d in lowest terms, "nan", "inf" with the sign in n,      *)
(* "str" a string with text s, "none" for None, "hugeint" an int beyond    *)
(* the float range).                                                       *)
(***************************************************************************)
RECURSIVE GCD(_, _)
GCD(a, b) == IF b = 0 THEN a ELSE GCD(b, a % b)

Abs(a) == IF a < 0 THEN -a ELSE a

Fin(n, d) ==
    LET g == GCD(Abs(n), Abs(d))
        sg == IF d < 0 THEN -1 ELSE 1
    IN  [k |-> "fin", n |-> sg * (n \div g), d |-> sg * (d \div g), s |-> ""]

NaN == [k |-> "nan", n |-> 0, d |-> 1, s |-> ""]
PosInf == [k |-> "inf", n |-> 1, d |-> 1, s |-> ""]
NegInf == [k |-> "inf", n |-> -1, d |-> 1, s |-> ""]
PyStr(text) == [k |-> "str", n |-> 0, d |-> 1, s |-> text]
PyNone == [k |-> "none", n |-> 0, d |-> 1, s |-> ""]
HugeInt == [k |-> "hugeint", n |-> 1, d |-> 1, s |-> ""]

IsFloat(x) == x.k \in {"fin", "nan", "inf"}

\* x < y on floats: false as soon as one side is NaN.
FLt(x, y) ==
    CASE x.k = "nan" \/ y.k = "nan" -> FALSE
      [] x.k = "inf" /\ y.k = "inf" -> x.n < y.n
      [] x.k = "inf" -> x.n < 0
      [] y.k = "inf" -> y.n > 0
      [] OTHER -> x.n * y.d < y.n * x.d

\* x > y, x >= y, x <= y on floats.
FGt(x, y) == FLt(y, x)
FEq(x, y) == x.k # "nan" /\ y.k # "nan" /\ ~FLt(x, y) /\ ~FLt(y, x)
FGe(x, y) == FGt(x, y) \/ FEq(x, y)
FLe(x, y) == FLt(x, y) \/ FEq(x, y)

Sign(a) == IF a < 0 THEN -1 ELSE IF a > 0 THEN 1 ELSE 0

\* x * y on floats (the arithmetic is exact on the model's decimal grid).
FMul(x, y) ==
    CASE x.k = "nan" \/ y.k = "nan" -> NaN
      [] x.k = "inf" \/ y.k = "inf" ->
            IF Sign(x.n) * Sign(y.n) = 0 THEN NaN
            ELSE IF Sign(x.n) * Sign(y.n) > 0 THEN PosInf ELSE NegInf
      [] OTHER ->
            LET g1 == GCD(Abs(x.n), y.d)
                g2 == GCD(Abs(y.n), x.d)
            IN  Fin((x.n \div g1) * (y.n \div g2), (x.d \div g2) * (y.d \div g1))

\* x - y on floats.
FSub(x, y) ==
    CASE x.k = "nan" \/ y.k = "nan" -> NaN
      [] x.k = "inf" /\ y.k = "inf" -> IF x.n = y.n THEN NaN ELSE x
      [] x.k = "inf" -> x
      [] y.k = "inf" -> IF y.n > 0 THEN NegInf ELSE PosInf
      [] OTHER -> Fin(x.n * y.d - y.n * x.d, x.d * y.d)

Zero == Fin(0, 1)
One == Fin(1, 1)
Hundred == Fin(100, 1)

\* A faulty rounding that truncates to the hundredth below instead of taking
\* the nearest one.
Round2Truncating(x, tie_up) ==
    IF x.k # "fin" THEN x
    ELSE LET a  == Abs(x.n)
             q  == a \div x.d
             r  == a % x.d
             h0 == q * 100 + ((r * 100) \div x.d)
         IN  Fin(Sign(x.n) * h0, 100)

\* round(x, 2).  A finite x is rounded to the nearest hundredth.  When x lies
\* exactly halfway between two hundredths the binary float the program holds
\* lies on one side or the other of the decimal tie (or on it, and then
\* round-half-even applies), so either neighbour can come out: tie_up picks.
Round2(x, tie_up) ==
    IF x.k # "fin" THEN x
    ELSE LET a  == Abs(x.n)
             q  == a \div x.d
             r  == a % x.d
             h0 == q * 100 + ((r * 100) \div x.d)
             rem == (r * 100) % x.d
             h  == IF 2 * rem > x.d THEN h0 + 1
                   ELSE IF 2 * rem < x.d THEN h0
                   ELSE IF tie_up THEN h0 + 1 ELSE h0
         IN  Fin(Sign(x.n) * h, 100)

\* The decimal strings float() is asked to parse in the model.
ParseFloat(text) ==
    CASE text = "0.7"  -> Fin(7, 10)
      [] text = "1e3"  -> Fin(1000, 1)
      [] text = "nan"  -> NaN
      [] OTHER         -> PyNone

\* float(x): [err, val].  A number converts to itself, a string is parsed
\* (ValueError when it is no numeral), None is a TypeError and an int beyond
\* the float range an OverflowError.
ToFloat(x) ==
    CASE IsFloat(x) -> [err |-> "none", val |-> x]
      [] x.k = "str" ->
            IF ParseFloat(x.s) = PyNone
            THEN [err |-> "ValueError", val |-> NaN]
            ELSE [err |-> "none", val |-> ParseFloat(x.s)]
      [] x.k = "hugeint" -> [err |-> "OverflowError", val |-> NaN]
      [] OTHER -> [err |-> "TypeError", val |-> NaN]

(***************************************************************************)
(* risk_scoring/pii_risk_scoring.py                                        *)
(***************************************************************************)
RiskLabels == <<"low", "medium", "high", "critical">>

\* A mapping is the sequence of its <<key, value>> pairs in insertion order.
DEFAULT_LABEL_THRESHOLDS ==
    << <<"low", Fin(0, 1)>>, <<"medium", Fin(20, 1)>>,
       <<"high", Fin(50, 1)>>, <<"critical", Fin(80, 1)>> >>

\* A faulty clamp that has lost its upper bound.
clamp_lower_only(x) ==
    IF FLt(x, Zero) THEN Zero
    ELSE x

_clamp01(x) ==
    IF FLt(x, Zero) THEN Zero
    ELSE IF FGt(x, One) THEN One
    ELSE x

\* sorted(pairs, key=value): a stable sort, so pairs of equal value keep their
\* insertion order.  kv goes after every pair whose value is not greater.
RECURSIVE InsertByValue(_, _)
InsertByValue(sorted, kv) ==
    IF sorted = <<>> THEN <<kv>>
    ELSE IF FLt(kv[2], Head(sorted)[2]) THEN <<kv>> \o sorted
    ELSE <<Head(sorted)>> \o InsertByValue(Tail(sorted), kv)

RECURSIVE SortedByValue(_)
SortedByValue(pairs) ==
    IF pairs = <<>> THEN <<>>
    ELSE InsertByValue(SortedByValue(SubSeq(pairs, 1, Len(pairs) - 1)),
                       pairs[Len(pairs)])

\* The loop of risk_label_for_score over the sorted pairs.
RECURSIVE LabelLoop(_, _, _)
LabelLoop(score, ordered, current) ==
    IF ordered = <<>> THEN current
    ELSE LabelLoop(score, Tail(ordered),
                   IF FGe(score, Head(ordered)[2]) THEN Head(ordered)[1] ELSE current)

\* A faulty labelling whose starting label is the tier of the greatest
\* threshold instead of the least.
risk_label_from_highest(score, th) ==
    LET ordered == SortedByValue(th)
    IN  LabelLoop(score, ordered, ordered[Len(ordered)][1])

risk_label_for_score(score, th) ==
    LET ordered == SortedByValue(th)
    IN  LabelLoop(score, ordered, ordered[1][1])

NoResult ==
    [err |-> "unset", score |-> NaN, label |-> "", item_count |-> 0,
     scored_items |-> <<>>]

Raised(e) ==
    [err |-> e, score |-> NaN, label |-> "", item_count |-> 0,
     scored_items |-> <<>>]

\* dict(raw) with "contribution" set.
WithContribution(raw, c) ==
    [f \in (DOMAIN raw) \cup {"contribution"} |->
        IF f = "contribution" THEN c ELSE raw[f]]

\* A faulty loop body that reads a missing severity weight as 0 instead of
\* raising KeyError.
ItemStepDefaultingSeverity(raw, dc) ==
    LET sv == IF "severity_weight" \in DOMAIN raw
              THEN ToFloat(raw["severity_weight"])
              ELSE [err |-> "none", val |-> Fin(0, 1)]
        cf == ToFloat(IF "confidence" \in DOMAIN raw
                      THEN raw["confidence"] ELSE dc)
    IN  IF sv.err # "none" THEN [err |-> sv.err, contribution |-> NaN]
        ELSE IF cf.err # "none" THEN [err |-> cf.err, contribution |-> NaN]
        ELSE [err |-> "none",
              contribution |->
                  _clamp01(FMul(_clamp01(sv.val), _clamp01(cf.val)))]

\* One pass of the loop body over raw: the error it raises ("none" when it
\* raises nothing) and the contribution it computes.
ItemStep(raw, dc) ==
    IF "severity_weight" \notin DOMAIN raw
    THEN [err |-> "KeyError", contribution |-> NaN]
    ELSE LET sv == ToFloat(raw["severity_weight"])
             cf == ToFloat(IF "confidence" \in DOMAIN raw
                           THEN raw["confidence"] ELSE dc)
         IN  IF sv.err # "none" THEN [err |-> sv.err, contribution |-> NaN]
             ELSE IF cf.err # "none" THEN [err |-> cf.err, contribution |-> NaN]
             ELSE [err |-> "none",
                   contribution |->
                       _clamp01(FMul(_clamp01(sv.val), _clamp01(cf.val)))]

\* The loop of score_pii_findings from item i on: [err, product, scored].
RECURSIVE ScoreLoop(_, _, _, _, _)
ScoreLoop(items, dc, i, product_not_risky, scored_items) ==
    IF i > Len(items)
    THEN [err |-> "none", product |-> product_not_risky, scored |-> scored_items]
    ELSE LET st == ItemStep(items[i], dc)
         IN  IF st.err # "none"
             THEN [err |-> st.err, product |-> product_not_risky,
                   scored |-> scored_items]
             ELSE ScoreLoop(items, dc, i + 1,
                            FMul(product_not_risky, FSub(One, st.contribution)),
                            Append(scored_items,
                                   WithContribution(items[i], st.contribution)))

score_pii_findings(items, dc, th, tie_up) ==
    LET loop == ScoreLoop(items, dc, 1, One, <<>>)
        combined_risk == FSub(One, _clamp01(loop.product))
        score == Round2(FMul(combined_risk, Hundred), tie_up)
    IN  IF loop.err # "none" THEN Raised(loop.err)
        ELSE [err |-> "none",
              score |-> score,
              label |-> risk_label_for_score(score, th),
              item_count |-> Len(loop.scored),
              scored_items |-> loop.scored]

(***************************************************************************)
(* pii_detection/file_scanner.py                                           *)
(***************************************************************************)
\* The character U+2028 (LINE SEPARATOR), written as one element of a text.
LINE_SEPARATOR == "u2028"

\* The line boundaries of str.splitlines that the model's texts can hold
\* ("\r\n" counts as one).
LineBreakChars == {"\n", "\r", "\f", LINE_SEPARATOR}

\* text.splitlines(keepends): the lines of text, each with its terminator when
\* keepends; no empty last line after a final terminator.
RECURSIVE SplitLines(_, _)
SplitLines(text, keepends) ==
    IF text = <<>> THEN <<>>
    ELSE LET brk == {i \in 1 .. Len(text) : text[i] \in LineBreakChars}
         IN  IF brk = {} THEN <<text>>
             ELSE LET i == CHOOSE x \in brk : \A y \in brk : x <= y
                      j == IF text[i] = "\r" /\ At(text, i + 1) = "\n"
                           THEN i + 1 ELSE i
                  IN  <<SubSeq(text, 1, IF keepends THEN j ELSE i - 1)>>
                      \o SplitLines(SubSeq(text, j + 1, Len(text)), keepends)

\* line.rstrip("\r\n"): every trailing "\r" and "\n" removed.
RECURSIVE RStripNewlines(_)
RStripNewlines(line) ==
    IF line # <<>> /\ line[Len(line)] \in {"\r", "\n"}
    THEN RStripNewlines(SubSeq(line, 1, Len(line) - 1))
    ELSE line

LineRecord(filename, line_number, line) ==
    [filename |-> filename, line_number |-> line_number, line |-> line]

\* Iterating a file opened with newline="": the lines end at "\n", "\r" or
\* "\r\n" and keep their terminator.
RECURSIVE StreamLines(_)
StreamLines(text) ==
    IF text = <<>> THEN <<>>
    ELSE LET brk == {i \in 1 .. Len(text) : text[i] \in {"\n", "\r"}}
         IN  IF brk = {} THEN <<text>>
             ELSE LET i == CHOOSE x \in brk : \A y \in brk : x <= y
                      j == IF text[i] = "\r" /\ At(text, i + 1) = "\n"
                           THEN i + 1 ELSE i
                  IN  <<SubSeq(text, 1, j)>>
                      \o StreamLines(SubSeq(text, j + 1, Len(text)))

\* Iterating an io.StringIO made with the default newline: the lines end at
\* "\n" only and keep it.
RECURSIVE NewlineLines(_)
NewlineLines(text) ==
    IF text = <<>> THEN <<>>
    ELSE LET brk == {i \in 1 .. Len(text) : text[i] = "\n"}
         IN  IF brk = {} THEN <<text>>
             ELSE LET i == CHOOSE x \in brk : \A y \in brk : x <= y
                  IN  <<SubSeq(text, 1, i)>>
                      \o NewlineLines(SubSeq(text, i + 1, Len(text)))

\* The loop of scan_text_stream from the k-th raw line on, line_no the number
\* the next record gets.
RECURSIVE StreamLoop(_, _, _, _, _)
StreamLoop(stream, filename, keep_newline, k, line_no) ==
    IF k > Len(stream) THEN <<>>
    ELSE <<LineRecord(filename, line_no,
                      IF keep_newline THEN stream[k] ELSE RStripNewlines(stream[k]))>>
         \o StreamLoop(stream, filename, keep_newline, k + 1, line_no + 1)

\* scan_text_stream over the raw lines of a stream: [err, records]
scan_text_stream(stream, filename, start_line, keep_newline) ==
    IF start_line < 1 THEN [err |-> "ValueError", records |-> <<>>]
    ELSE [err |-> "none",
          records |-> StreamLoop(stream, filename, keep_newline, 1, start_line)]

\* scan_path: [err, records]; opening a path that is no file raises.
scan_path(fs, path, keep_newline, start_line) ==
    IF ~fs[path].exists THEN [err |-> "FileNotFoundError", records |-> <<>>]
    ELSE scan_text_stream(StreamLines(fs[path].content), path, start_line,
                          keep_newline)

\* A faulty loop that numbers on from the records already yielded instead of
\* starting each file at start_line.
RECURSIVE PathsLoopNumberingOn(_, _, _, _, _, _, _)
PathsLoopNumberingOn(fs, paths, keep_newline, start_line, skip_missing, i, yielded) ==
    IF i > Len(paths) THEN [err |-> "none", records |-> yielded]
    ELSE IF skip_missing /\ ~fs[paths[i]].exists
         THEN PathsLoopNumberingOn(fs, paths, keep_newline, start_line,
                                   skip_missing, i + 1, yielded)
    ELSE LET one == scan_path(fs, paths[i], keep_newline, start_line + Len(yielded))
         IN  IF one.err # "none" THEN [err |-> one.err, records |-> yielded]
             ELSE PathsLoopNumberingOn(fs, paths, keep_newline, start_line,
                                       skip_missing, i + 1, yielded \o one.records)

\* The loop of scan_paths from the i-th path on: [err, records], the records
\* being those yielded before the error when one is raised.
RECURSIVE PathsLoop(_, _, _, _, _, _, _)
PathsLoop(fs, paths, keep_newline, start_line, skip_missing, i, yielded) ==
    IF i > Len(paths) THEN [err |-> "none", records |-> yielded]
    ELSE IF skip_missing /\ ~fs[paths[i]].exists
         THEN PathsLoop(fs, paths, keep_newline, start_line, skip_missing,
                        i + 1, yielded)
    ELSE LET one == scan_path(fs, paths[i], keep_newline, start_line)
         IN  IF one.err # "none" THEN [err |-> one.err, records |-> yielded]
             ELSE PathsLoop(fs, paths, keep_newline, start_line, skip_missing,
                            i + 1, yielded \o one.records)

scan_paths(fs, paths, keep_newline, start_line, skip_missing) ==
    PathsLoop(fs, paths, keep_newline, start_line, skip_missing, 1, <<>>)

\* scan_bytes over already decoded text: [err, records].
scan_bytes(text, filename, keep_newline, start_line) ==
    LET lines == SplitLines(text, keep_newline)
    IN  IF start_line < 1 THEN [err |-> "ValueError", records |-> <<>>]
        ELSE [err |-> "none",
              records |->
                [i \in 1 .. Len(lines) |->
                    LineRecord(filename, start_line + i - 1,
                               IF keep_newline THEN lines[i]
                               ELSE RStripNewlines(lines[i]))]]

(***************************************************************************)
(* pii_detection/pii_detector.py                                           *)
(***************************************************************************)
\* A PiiMatch, with the span the detector reserved or tested for it.
PiiMatch(pii_type, value, filename, line_number, span) ==
    [pii_type |-> pii_type, value |-> value, filename |-> filename,
     line_number |-> line_number, span |-> span]

Overlap(a, b) == a[1] < b[2] /\ b[1] < a[2]

overlaps_any(span, reserved_spans) ==
    \E k \in 1 .. Len(reserved_spans) : Overlap(span, reserved_spans[k])

\* str.strip(): leading and trailing whitespace removed.
RECURSIVE Strip(_)
Strip(t) ==
    IF t # <<>> /\ t[1] \in SpaceChars THEN Strip(Tail(t))
    ELSE IF t # <<>> /\ t[Len(t)] \in SpaceChars
         THEN Strip(SubSeq(t, 1, Len(t) - 1))
         ELSE t

\* re.sub(r"\D", "", raw)
DigitsOnly(t) == SelectSeq(t, LAMBDA c : c \in Digits)

Slice(line, span) == SubSeq(line, span[1], span[2] - 1)

\* The spans EMAIL_RE.finditer yields, all reserved and all yielded.
EmailSpans(line) == FindIter("email", line, 1)

\* The spans AADHAAR_RE.finditer yields, all reserved and all yielded.
AadhaarSpans(line) == FindIter("aadhaar", line, 1)

\* The phone candidate at span is yielded: it overlaps no reserved span and
\* holds seven digits or more.
PhoneAccepted(line, span, reserved_spans) ==
    /\ ~overlaps_any(span, reserved_spans)
    /\ Len(DigitsOnly(Strip(Slice(line, span)))) >= 7

RECURSIVE SelectPhones(_, _, _)
SelectPhones(line, cands, reserved_spans) ==
    IF cands = <<>> THEN <<>>
    ELSE (IF PhoneAccepted(line, Head(cands), reserved_spans)
          THEN <<Head(cands)>> ELSE <<>>)
         \o SelectPhones(line, Tail(cands), reserved_spans)

_iter_matches_for_line(filename, line_number, line) ==
    LET emails == EmailSpans(line)
        aadhaars == AadhaarSpans(line)
        reserved_spans == emails \o aadhaars
        phones == SelectPhones(line, FindIter("phone", line, 1), reserved_spans)
    IN  [i \in 1 .. Len(emails) |->
            PiiMatch("email", Slice(line, emails[i]), filename, line_number,
                     emails[i])]
        \o [i \in 1 .. Len(aadhaars) |->
            PiiMatch("aadhaar", Slice(line, aadhaars[i]), filename,
                     line_number, aadhaars[i])]
        \o [i \in 1 .. Len(phones) |->
            PiiMatch("phone", Strip(Slice(line, phones[i])), filename,
                     line_number, phones[i])]

RECURSIVE detect_pii(_)
detect_pii(recs) ==
    IF recs = <<>> THEN <<>>
    ELSE _iter_matches_for_line(Head(recs).filename, Head(recs).line_number,
                                Head(recs).line)
         \o detect_pii(Tail(recs))

pii_match_to_dict(m) ==
    [type |-> m.pii_type, value |-> m.value, file |-> m.filename,
     line_number |-> m.line_number]

detect_pii_dicts(recs) ==
    LET ms == detect_pii(recs)
    IN  [i \in 1 .. Len(ms) |-> pii_match_to_dict(ms[i])]

(***************************************************************************)
(* risk_scoring/pii_classification.py                                      *)
(***************************************************************************)
PiiRiskProfile(risk_level, severity_weight, rationale) ==
    [risk_level |-> risk_level, severity_weight |-> severity_weight,
     rationale |-> rationale]

\* A faulty policy table in which email and phone have exchanged profiles.
DEFAULT_POLICY_EmailPhoneSwapped ==
    [email |-> PiiRiskProfile("high", Fin(70, 100),
        "Direct identifier often tied to accounts, OTP, and contactability."),
     phone |-> PiiRiskProfile("medium", Fin(50, 100),
        "Direct identifier; commonly personal data but typically lower impact than government ID."),
     aadhaar |-> PiiRiskProfile("critical", Fin(95, 100),
        "Government ID-like identifier with high sensitivity and regulatory implications.")]

DEFAULT_POLICY ==
    [email |-> PiiRiskProfile("medium", Fin(50, 100),
        "Direct identifier; commonly personal data but typically lower impact than government ID."),
     phone |-> PiiRiskProfile("high", Fin(70, 100),
        "Direct identifier often tied to accounts, OTP, and contactability."),
     aadhaar |-> PiiRiskProfile("critical", Fin(95, 100),
        "Government ID-like identifier with high sensitivity and regulatory implications.")]

\* rationale.strip() is empty
BlankRationales == {"", " ", "\t"}

\* _validate_profile raises nothing
ProfileValid(profile) ==
    /\ FLe(Zero, profile.severity_weight)
    /\ FLe(profile.severity_weight, One)
    /\ profile.rationale \notin BlankRationales

\* validate_policy raises nothing
PolicyValid(policy) == \A t \in DOMAIN policy : ProfileValid(policy[t])

\* A faulty classification that resolves the type in the shipped table
\* whatever policy it was passed (POLICY_TABLE stands for DEFAULT_POLICY).
classify_pii_dict_shipped_table(item, policy) ==
    LET POLICY_TABLE ==
          [email |-> PiiRiskProfile("medium", Fin(50, 100), "Direct identifier."),
           phone |-> PiiRiskProfile("high", Fin(70, 100), "Direct identifier."),
           aadhaar |-> PiiRiskProfile("critical", Fin(95, 100), "Government ID.")]
    IN  IF item.type \notin DOMAIN POLICY_TABLE
        THEN [err |-> "KeyError", item |-> item]
        ELSE [err |-> "none",
              item |-> [type |-> item.type, value |-> item.value,
                        file |-> item.file, line_number |-> item.line_number,
                        risk_level |-> POLICY_TABLE[item.type].risk_level,
                        severity_weight |-> POLICY_TABLE[item.type].severity_weight,
                        rationale |-> POLICY_TABLE[item.type].rationale]]

\* classify_pii_dict: [err, item]
classify_pii_dict(item, policy) ==
    IF item.type \notin DOMAIN policy THEN [err |-> "KeyError", item |-> item]
    ELSE IF ~ProfileValid(policy[item.type])
         THEN [err |-> "ValueError", item |-> item]
         ELSE [err |-> "none",
               item |-> [type |-> item.type, value |-> item.value,
                         file |-> item.file, line_number |-> item.line_number,
                         risk_level |-> policy[item.type].risk_level,
                         severity_weight |-> policy[item.type].severity_weight,
                         rationale |-> policy[item.type].rationale]]

\* classify_pii_dicts: [err, items]; the first error raised ends the call.
classify_pii_dicts(items, policy) ==
    LET each == [i \in 1 .. Len(items) |-> classify_pii_dict(items[i], policy)]
        bad == {i \in 1 .. Len(items) : each[i].err # "none"}
    IN  IF ~PolicyValid(policy) THEN [err |-> "ValueError", items |-> <<>>]
        ELSE IF bad # {}
             THEN [err |-> each[CHOOSE i \in bad : \A j \in bad : i <= j].err,
                   items |-> <<>>]
             ELSE [err |-> "none",
                   items |-> [i \in 1 .. Len(items) |-> each[i].item]]

\* The keys load_policy_from_json accepts.
KnownTypes == {"email", "phone", "aadhaar"}

\* A faulty copy that hands back the dict it was given instead of a new one.
DictAlias(objects, ref) == [objects |-> objects, ref |-> ref]

\* dict(base): a new dict object holding the entries of objects[ref].
DictCopy(objects, ref) ==
    [objects |-> Append(objects, objects[ref]), ref |-> Len(objects) + 1]

\* The entries of base with those of overrides laid over them.
Overlay(base, overrides) ==
    [t \in (DOMAIN base) \cup (DOMAIN overrides) |->
        IF t \in DOMAIN overrides THEN overrides[t] ELSE base[t]]

\* objects[ref].update(overrides): the dict object is changed in place.
DictUpdate(objects, ref, overrides) ==
    [objects EXCEPT ![ref] = Overlay(objects[ref], overrides)]

\* merge_policy(base, overrides) on the dict objects: [err, objects, ref].
\* When validate_policy raises, the new dict is dropped with the exception.
merge_policy(objects, base, overrides) ==
    LET copy == DictCopy(objects, base)
        updated == DictUpdate(copy.objects, copy.ref, overrides)
    IN  IF PolicyValid(updated[copy.ref])
        THEN [err |-> "none", objects |-> updated, ref |-> copy.ref]
        ELSE [err |-> "ValueError",
              objects |-> SubSeq(updated, 1, Len(objects)), ref |-> 0]

\* PiiRiskProfile(risk_level=v["risk_level"], severity_weight=float(...),
\* rationale=str(v["rationale"])): [err, profile], the arguments evaluated in
\* that order.
ProfileFromJson(v) ==
    LET none == PiiRiskProfile("", NaN, "")
    IN  IF "risk_level" \notin DOMAIN v \/ "severity_weight" \notin DOMAIN v
        THEN [err |-> "KeyError", profile |-> none]
        ELSE LET w == ToFloat(v["severity_weight"])
             IN  IF w.err # "none" THEN [err |-> w.err, profile |-> none]
                 ELSE IF "rationale" \notin DOMAIN v
                      THEN [err |-> "KeyError", profile |-> none]
                      ELSE [err |-> "none",
                            profile |-> PiiRiskProfile(v["risk_level"], w.val,
                                                       v["rationale"])]

\* The loop of load_policy_from_json over raw.items(), from pair i on.
RECURSIVE LoadLoop(_, _, _)
LoadLoop(raw, i, out) ==
    IF i > Len(raw) THEN [err |-> "none", out |-> out]
    ELSE IF raw[i][1] \notin KnownTypes THEN [err |-> "ValueError", out |-> out]
    ELSE LET pr == ProfileFromJson(raw[i][2])
         IN  IF pr.err # "none" THEN [err |-> pr.err, out |-> out]
             ELSE LoadLoop(raw, i + 1, Overlay(out, raw[i][1] :> pr.profile))

\* load_policy_from_json on the parsed JSON object raw, a sequence of
\* <<key, value>> pairs in document order: [err, policy].
load_policy_from_json(raw) ==
    LET loop == LoadLoop(raw, 1, <<>>)
    IN  IF loop.err # "none" THEN [err |-> loop.err, policy |-> <<>>]
        ELSE IF ~PolicyValid(loop.out) THEN [err |-> "ValueError", policy |-> <<>>]
        ELSE [err |-> "none", policy |-> loop.out]

\* order = ["low", "medium", "high", "critical"]
RiskLevelOrder == <<"low", "medium", "high", "critical">>

\* A faulty rank that orders the levels as strings: critical < high < low <
\* medium.
OrderIndexAlphabetical(level) ==
    CASE level = "critical" -> 1
      [] level = "high" -> 2
      [] level = "low" -> 3
      [] OTHER -> 4

\* order.index(level), for a level of the list
OrderIndex(level) == CHOOSE i \in 1 .. Len(RiskLevelOrder) : RiskLevelOrder[i] = level

\* The loop of classify_pii from item i on: [err, level].  order.index raises
\* ValueError for a level that is not in the list.
RECURSIVE ClassifyLoop(_, _, _, _)
ClassifyLoop(items, policy, i, highest) ==
    IF i > Len(items) THEN [err |-> "none", level |-> highest]
    ELSE IF items[i].type \notin DOMAIN policy
         THEN [err |-> "KeyError", level |-> ""]
    ELSE LET profile == policy[items[i].type]
         IN  IF ~ProfileValid(profile) THEN [err |-> "ValueError", level |-> ""]
             ELSE IF \A k \in 1 .. Len(RiskLevelOrder) :
                         RiskLevelOrder[k] # profile.risk_level
                  THEN [err |-> "ValueError", level |-> ""]
                  ELSE ClassifyLoop(items, policy, i + 1,
                          IF OrderIndex(profile.risk_level) > OrderIndex(highest)
                          THEN profile.risk_level ELSE highest)

\* classify_pii(items, policy=policy): [err, level]
classify_pii(items, policy) ==
    IF items = <<>> THEN [err |-> "none", level |-> "low"]
    ELSE ClassifyLoop(items, policy, 1, "low")

(***************************************************************************)
(* utils/temp_storage.py.  Times are whole seconds.                        *)
(***************************************************************************)
\* Python's None, as a scan_id argument and as a returned payload.
None == "None"

\* An entry dict of _storage.
Entry(scan_id, stored_at, ttl_seconds, payload) ==
    [scan_id |-> scan_id, stored_at |-> stored_at, ttl_seconds |-> ttl_seconds,
     payload |-> payload]

\* A faulty test that still keeps an entry whose age equals its TTL.
WithinTtlInclusive(e, t) == (t - e.stored_at) <= e.ttl_seconds

\* (now - e["stored_at"]) < e["ttl_seconds"]
WithinTtl(e, t) == (t - e.stored_at) < e.ttl_seconds

\* The list _prune_expired builds from the list it reads, now being t.
Kept(storage, t) == SelectSeq(storage, LAMBDA e : WithinTtl(e, t))

\* str(uuid.uuid4()), the n-th one produced
Uuid4(n) == ToString(n)

\* add(payload, scan_id=scan_id, ttl_seconds=ttl_seconds), run alone: the
\* prune reads the clock at t_prune and the entry is stamped at t_store.
\* [storage, ret]
add(storage, payload, scan_id, ttl_seconds, t_prune, t_store, fresh) ==
    LET sid == IF scan_id # None THEN scan_id ELSE fresh
    IN  [storage |-> Append(Kept(storage, t_prune),
                            Entry(sid, t_store, ttl_seconds, payload)),
         ret |-> sid]

\* The loop of get over the list it reads: the payload of the first entry
\* with the scan_id, None without one.
FirstPayload(storage, scan_id) ==
    LET hits == {i \in 1 .. Len(storage) : storage[i].scan_id = scan_id}
    IN  IF hits = {} THEN None
        ELSE storage[CHOOSE i \in hits : \A j \in hits : i <= j].payload

\* get(scan_id), run alone: [storage, ret]
get(storage, scan_id, t) ==
    [storage |-> Kept(storage, t), ret |-> FirstPayload(Kept(storage, t), scan_id)]

\* get_all_non_expired(), run alone: [storage, ret]
get_all_non_expired(storage, t) ==
    LET kept == Kept(storage, t)
    IN  [storage |-> kept,
         ret |-> [i \in 1 .. Len(kept) |-> <<kept[i].scan_id, kept[i].payload>>]]

(***************************************************************************)
(* The inputs of the model.                                                *)
(***************************************************************************)
ScenarioLine ==
    <<"C", "o", "n", "t", "a", "c", "t", " ", "d", "u", "m", "m", "y", ".",
      "u", "s", "e", "r", "@", "e", "x", "a", "m", "p", "l", "e", ".", "c",
      "o", "m", " ", "o", "r", " ", "c", "a", "l", "l", " ", "5", "5", "5",
      "-", "1", "2", "3", "-", "4", "5", "6", "7">>

ScenarioEmail ==
    <<"d", "u", "m", "m", "y", ".", "u", "s", "e", "r", "@", "e", "x", "a",
      "m", "p", "l", "e", ".", "c", "o", "m">>

ScenarioPhone ==
    <<"5", "5", "5", "-", "1", "2", "3", "-", "4", "5", "6", "7">>

\* Two lines in the manner of test_scan_file.py, one ended by CR LF and one
\* by LF.
TwoLineText ==
    <<"C", "o", "n", "t", "a", "c", "t", " ", "e", "m", "a", "i", "l", ":",
      " ", "d", "u", "m", "m", "y", ".", "u", "s", "e", "r", "@", "e", "x",
      "a", "m", "p", "l", "e", ".", "c", "o", "m", "\r", "\n", "C", "o", "n",
      "t", "a", "c", "t", " ", "p", "h", "o", "n", "e", ":", " ", "5", "5",
      "5", "-", "1", "2", "3", "-", "4", "5", "6", "7", "\n">>

\* The pieces the bounded texts are built from: a country code, ten digits
\* (with the code: twelve), a space, an email tail, a letter, a plus, a hyphen.
TextTokens ==
    { <<"9", "1">>,
      <<"2", "3", "4", "5", "6", "7", "8", "9", "0", "1">>,
      <<" ">>,
      <<"@", "a", ".", "c", "o">>,
      <<"x">>,
      <<"+">>,
      <<"-">> }

RECURSIVE TokenTexts(_)
TokenTexts(n) ==
    IF n = 0 THEN {<<>>}
    ELSE LET shorter == TokenTexts(n - 1)
         IN  shorter \cup {t \o x : t \in TextTokens, x \in shorter}

\* Aadhaar-like strings as AADHAAR_RE accepts them: twelve digits, the first
\* one 2-9, grouped 4-4-4 with spaces, with hyphens or written together.
IdStrings ==
    { <<"2", "3", "4", "5">> \o sep \o <<"6", "7", "8", "9">> \o sep
        \o <<"0", "1", "2", "3">> : sep \in {<<" ">>, <<"-">>, <<>>} }

\* India mobile numbers as PHONE_RE's plain alternative accepts them: ten
\* digits, the first one 6-9.
MobileNumbers ==
    { <<"9", "8", "7", "6", "5", "4", "3", "2", "1", "0">>,
      <<"6", "0", "0", "0", "0", "0", "0", "0", "0", "0">> }

\* A line holding an id, one space and a mobile number.
IdMobileLines == {id \o <<" ">> \o m : id \in IdStrings, m \in MobileNumbers}

InputTexts ==
    TokenTexts(MaxTokens) \cup {ScenarioLine, TwoLineText} \cup IdMobileLines

(***************************************************************************)
(* The pipeline: scan, detect, classify with the default policy, score     *)
(* with the defaults (default_confidence 1.0, DEFAULT_LABEL_THRESHOLDS).   *)
(***************************************************************************)
Idle ==
    /\ records = <<>>
    /\ matches = <<>>
    /\ classified = <<>>
    /\ result = NoResult
    /\ prev_result = NoResult
    /\ label_score = NaN
    /\ label = ""

PipelineInit ==
    /\ pc = "scan"
    /\ data \in InputTexts
    /\ thresholds = DEFAULT_LABEL_THRESHOLDS
    /\ default_confidence = One
    /\ Idle
    /\ PolicyIdle
    /\ ScanIdle
    /\ StoreIdle
    /\ LogIdle
    /\ ValidatorIdle
    /\ AppIdle

\* file_scanner.scan_bytes(raw_bytes) with its defaults
Scan ==
    /\ pc = "scan"
    /\ records' = scan_bytes(data, "<bytes>", FALSE, 1).records
    /\ pc' = "detect"
    /\ UNCHANGED <<data, matches, classified, result, prev_result, thresholds,
                   default_confidence, label_score, label>>
    /\ UNCHANGED allButCore

\* pii_detector.detect_pii(records)
Detect ==
    /\ pc = "detect"
    /\ matches' = detect_pii(records)
    /\ pc' = "classify"
    /\ UNCHANGED <<data, records, classified, result, prev_result, thresholds,
                   default_confidence, label_score, label>>
    /\ UNCHANGED allButCore

\* classify_pii_dicts(pii_matches_to_dicts(matches))
Classify ==
    /\ pc = "classify"
    /\ classified' =
         classify_pii_dicts([i \in 1 .. Len(matches) |->
                                pii_match_to_dict(matches[i])],
                            DEFAULT_POLICY).items
    /\ pc' = "score"
    /\ UNCHANGED <<data, records, matches, result, prev_result, thresholds,
                   default_confidence, label_score, label>>
    /\ UNCHANGED allButCore

\* score_pii_findings(classified)
Score ==
    /\ pc = "score"
    /\ \E tie_up \in BOOLEAN :
          result' = score_pii_findings(classified, default_confidence,
                                       thresholds, tie_up)
    /\ pc' = "done"
    /\ UNCHANGED <<data, records, matches, classified, prev_result, thresholds,
                   default_confidence, label_score, label>>
    /\ UNCHANGED allButCore

Next == Scan \/ Detect \/ Classify \/ Score

Spec == PipelineInit /\ [][Next]_vars

(***************************************************************************)
(* score_pii_findings driven on growing lists of findings: each call       *)
(* scores the list, then one more finding is appended and the list is      *)
(* scored again with the same default_confidence and thresholds.           *)
(***************************************************************************)
Half == Fin(1, 2)

Finding(t, sev) == [type |-> t, severity_weight |-> sev]

FindingC(t, sev, conf) == [type |-> t, severity_weight |-> sev, confidence |-> conf]

\* The findings the lists are drawn from: the shipped weights, values at and
\* beyond the ends of [0,1], the special floats, strings, None and items
\* without severity_weight.
FindingDomain ==
    { Finding("email", Fin(50, 100)),
      FindingC("phone", Fin(70, 100), One),
      FindingC("aadhaar", Fin(95, 100), Half),
      FindingC("aadhaar", Fin(99, 100), One),
      Finding("aadhaar", One),
      FindingC("phone", Fin(3, 2), Fin(2, 1)),
      FindingC("email", Fin(-1, 2), One),
      FindingC("email", Fin(50, 100), Zero),
      Finding("email", NaN),
      FindingC("email", Fin(50, 100), NaN),
      [type |-> "email"],
      [type |-> "phone", confidence |-> One],
      Finding("email", PyStr("abc")),
      Finding("phone", PyStr("0.7")),
      FindingC("email", PosInf, One),
      FindingC("email", Fin(50, 100), PyNone),
      Finding("aadhaar", HugeInt) }

\* A thresholds mapping whose lowest-threshold tier is not "low".
MediumFirstThresholds ==
    << <<"low", Fin(10, 1)>>, <<"medium", Fin(5, 1)>>,
       <<"high", Fin(50, 1)>>, <<"critical", Fin(80, 1)>> >>

\* The (default_confidence, thresholds) arguments of the calls.
ScoreConfigs ==
    { <<One, DEFAULT_LABEL_THRESHOLDS>>,
      <<Half, DEFAULT_LABEL_THRESHOLDS>>,
      <<One, MediumFirstThresholds>> }

ScoreInit ==
    /\ pc = "idle"
    /\ data = <<>>
    /\ \E cfg \in ScoreConfigs :
          /\ default_confidence = cfg[1]
          /\ thresholds = cfg[2]
    /\ Idle
    /\ PolicyIdle
    /\ ScanIdle
    /\ StoreIdle
    /\ LogIdle
    /\ ValidatorIdle
    /\ AppIdle

\* score_pii_findings(classified, default_confidence=..., thresholds=...)
ScoreFindings ==
    /\ pc = "idle"
    /\ \E tie_up \in BOOLEAN :
          result' = score_pii_findings(classified, default_confidence,
                                       thresholds, tie_up)
    /\ pc' = "scored"
    /\ UNCHANGED <<data, records, matches, classified, prev_result, thresholds,
                   default_confidence, label_score, label>>
    /\ UNCHANGED allButCore

\* findings ++ [extra]: the caller appends one finding and keeps the last result.
AppendFinding ==
    /\ pc = "scored"
    /\ Len(classified) < MaxItems
    /\ \E extra \in FindingDomain : classified' = Append(classified, extra)
    /\ prev_result' = result
    /\ result' = NoResult
    /\ pc' = "idle"
    /\ UNCHANGED <<data, records, matches, thresholds, default_confidence,
                   label_score, label>>
    /\ UNCHANGED allButCore

ScoreNext == ScoreFindings \/ AppendFinding

SpecScore == ScoreInit /\ [][ScoreNext]_vars

(***************************************************************************)
(* risk_label_for_score driven on scores and thresholds mappings.          *)
(***************************************************************************)
ThresholdValues == {Fin(0, 1), Fin(20, 1), Fin(50, 1)}

\* Every mapping of the four tiers, in every insertion order, to those values.
ThresholdMappings ==
    { [i \in 1 .. 4 |-> <<order[i], vals[i]>>] :
        order \in {o \in [1 .. 4 -> {"low", "medium", "high", "critical"}] :
                      \A i, j \in 1 .. 4 : i # j => o[i] # o[j]},
        vals \in [1 .. 4 -> ThresholdValues] }

LabelScores ==
    {Fin(-5, 1), Zero, Fin(1999, 100), Fin(20, 1), Fin(35, 1), Fin(50, 1),
     Hundred, NaN}

LabelInit ==
    /\ pc = "label"
    /\ data = <<>>
    /\ default_confidence = One
    /\ thresholds \in ThresholdMappings
    /\ label_score \in LabelScores
    /\ records = <<>>
    /\ matches = <<>>
    /\ classified = <<>>
    /\ result = NoResult
    /\ prev_result = NoResult
    /\ label = ""
    /\ PolicyIdle
    /\ ScanIdle
    /\ StoreIdle
    /\ LogIdle
    /\ ValidatorIdle
    /\ AppIdle

\* risk_label_for_score(label_score, thresholds=thresholds)
LabelCall ==
    /\ pc = "label"
    /\ label' = risk_label_for_score(label_score, thresholds)
    /\ pc' = "labelled"
    /\ UNCHANGED <<data, records, matches, classified, result, prev_result,
                   thresholds, default_confidence, label_score>>
    /\ UNCHANGED allButCore

LabelNext == LabelCall

SpecLabel == LabelInit /\ [][LabelNext]_vars

(***************************************************************************)
(* The classification module driven on policies: merges and loads create   *)
(* policy dicts, the classify functions read them.                         *)
(***************************************************************************)
PiiDict(t, value, line_number) ==
    [type |-> t, value |-> value, file |-> "dummy.txt", line_number |-> line_number]

\* Detected items of the three known types and of a type no policy ships.
PolicyItems ==
    { PiiDict("email", "dummy.user@example.com", 1),
      PiiDict("phone", "555-123-4567", 2),
      PiiDict("aadhaar", "2222 3333 4444", 3),
      PiiDict("ssn", "078-05-1120", 4) }

RECURSIVE ItemLists(_)
ItemLists(n) ==
    IF n = 0 THEN {<<>>}
    ELSE LET shorter == ItemLists(n - 1)
         IN  shorter \cup {Append(l, x) : l \in shorter, x \in PolicyItems}

\* The overrides handed to merge_policy: the email override of the scenario,
\* an entry for an unknown type, entries validate_policy rejects, two entries
\* at once, and no entry.
OverrideMappings ==
    { [email |-> PiiRiskProfile("medium", Fin(10, 100), "Low impact here.")],
      [ssn |-> PiiRiskProfile("high", Fin(80, 100), "Government ID.")],
      [phone |-> PiiRiskProfile("high", Fin(3, 2), "Out of range.")],
      [email |-> PiiRiskProfile("medium", Fin(50, 100), " ")],
      [aadhaar |-> PiiRiskProfile("critical", NaN, "Not a number.")],
      [phone |-> PiiRiskProfile("low", Fin(20, 100), "Office lines only."),
       email |-> PiiRiskProfile("critical", One, "Login name.")],
      <<>> }

JsonProfile(risk_level, severity_weight, rationale) ==
    [risk_level |-> risk_level, severity_weight |-> severity_weight,
     rationale |-> rationale]

\* The JSON objects load_policy_from_json is given.
PolicyDocuments ==
    { << <<"email", JsonProfile("medium", Fin(50, 100), "r1")>>,
         <<"phone", JsonProfile("high", Fin(70, 100), "r2")>>,
         <<"aadhaar", JsonProfile("critical", Fin(95, 100), "r3")>> >>,
      << <<"email", JsonProfile("medium", Fin(10, 100), "r1")>> >>,
      << <<"email", JsonProfile("severe", PyStr("0.7"), "r1")>> >>,
      << <<"email", [severity_weight |-> PyStr("abc"), rationale |-> "r1"]>>,
         <<"ssn", JsonProfile("high", Fin(80, 100), "r4")>> >>,
      << <<"ssn", JsonProfile("high", Fin(80, 100), "r4")>>,
         <<"email", JsonProfile("medium", Fin(50, 100), "r1")>> >>,
      << <<"phone", JsonProfile("high", Fin(70, 100), "r2")>>,
         <<"ssn", JsonProfile("high", Fin(80, 100), "r4")>> >>,
      << <<"email", JsonProfile("low", PyNone, "r1")>> >>,
      << <<"email", JsonProfile("low", PyStr("abc"), "r1")>> >>,
      << <<"email", JsonProfile("low", Fin(2, 1), "r1")>> >>,
      << <<"email", JsonProfile("low", NaN, "r1")>> >>,
      << <<"email", JsonProfile("low", Fin(50, 100), "")>> >>,
      << <<"phone", [risk_level |-> "low", severity_weight |-> Fin(50, 100)]>> >>,
      <<>> }

\* Policies a caller builds by hand and passes without merge or load.
HandBuiltPolicies ==
    { [email |-> PiiRiskProfile("medium", Fin(2, 1), "r1")],
      [email |-> PiiRiskProfile("medium", Fin(50, 100), "r1"),
       phone |-> PiiRiskProfile("high", Fin(2, 1), "r2")],
      [email |-> PiiRiskProfile("severe", Fin(50, 100), "r1"),
       phone |-> PiiRiskProfile("low", Fin(20, 100), "r2")] }

\* The policies a call can be given: a dict alive in the program or one
\* built by hand.
PolicyArguments ==
    {policy_objects[r] : r \in 1 .. Len(policy_objects)} \cup HandBuiltPolicies

NoCall ==
    [op |-> "none", base |-> 0, arg |-> <<>>, policy |-> <<>>,
     before |-> <<>>, err |-> "none", ret |-> <<>>]

PolicyInit ==
    /\ pc = "policy"
    /\ data = <<>>
    /\ thresholds = DEFAULT_LABEL_THRESHOLDS
    /\ default_confidence = One
    /\ Idle
    /\ policy_objects = <<DEFAULT_POLICY>>
    /\ policy_call = NoCall
    /\ ScanIdle
    /\ StoreIdle
    /\ LogIdle
    /\ ValidatorIdle
    /\ AppIdle

\* merge_policy(base, overrides), base a dict alive in the program and
\* overrides a literal mapping or another such dict
MergePolicy ==
    /\ pc = "policy"
    /\ pc' = "policy_called"
    /\ Len(policy_objects) < MaxPolicies
    /\ \E base \in 1 .. Len(policy_objects) :
       \E overrides \in OverrideMappings
                        \cup {policy_objects[r] : r \in 1 .. Len(policy_objects)} :
          LET r == merge_policy(policy_objects, base, overrides)
          IN  /\ policy_objects' = r.objects
              /\ policy_call' = [op |-> "merge", base |-> base, arg |-> overrides,
                                 policy |-> policy_objects[base],
                                 before |-> policy_objects,
                                 err |-> r.err, ret |-> r.ref]
    /\ UNCHANGED <<data, records, matches, classified, result, prev_result,
                   thresholds, default_confidence, label_score, label>>
    /\ UNCHANGED <<scanVars, storeVars, logVars, validatorVars, appVars>>

\* load_policy_from_json(path), the file holding one of the documents
LoadPolicy ==
    /\ pc = "policy"
    /\ pc' = "policy_called"
    /\ Len(policy_objects) < MaxPolicies
    /\ \E raw \in PolicyDocuments :
          LET r == load_policy_from_json(raw)
          IN  /\ policy_objects' = IF r.err = "none"
                                   THEN Append(policy_objects, r.policy)
                                   ELSE policy_objects
              /\ policy_call' = [op |-> "load", base |-> 0, arg |-> raw,
                                 policy |-> <<>>, before |-> policy_objects,
                                 err |-> r.err,
                                 ret |-> IF r.err = "none"
                                         THEN Len(policy_objects) + 1 ELSE 0]
    /\ UNCHANGED <<data, records, matches, classified, result, prev_result,
                   thresholds, default_confidence, label_score, label>>
    /\ UNCHANGED <<scanVars, storeVars, logVars, validatorVars, appVars>>

\* classify_pii_dict(item, policy=policy)
ClassifyDict ==
    /\ pc = "policy"
    /\ pc' = "policy_called"
    /\ \E item \in PolicyItems, policy \in PolicyArguments :
          LET r == classify_pii_dict(item, policy)
          IN  policy_call' = [op |-> "classify_pii_dict", base |-> 0,
                              arg |-> item, policy |-> policy,
                              before |-> policy_objects,
                              err |-> r.err, ret |-> r.item]
    /\ UNCHANGED <<data, records, matches, classified, result, prev_result,
                   thresholds, default_confidence, label_score, label>>
    /\ UNCHANGED <<policy_objects, scanVars, storeVars, logVars, validatorVars, appVars>>

\* classify_pii_dicts(items, policy=policy)
ClassifyDicts ==
    /\ pc = "policy"
    /\ pc' = "policy_called"
    /\ \E items \in ItemLists(MaxClassified), policy \in PolicyArguments :
          LET r == classify_pii_dicts(items, policy)
          IN  policy_call' = [op |-> "classify_pii_dicts", base |-> 0,
                              arg |-> items, policy |-> policy,
                              before |-> policy_objects,
                              err |-> r.err, ret |-> r.items]
    /\ UNCHANGED <<data, records, matches, classified, result, prev_result,
                   thresholds, default_confidence, label_score, label>>
    /\ UNCHANGED <<policy_objects, scanVars, storeVars, logVars, validatorVars, appVars>>

\* classify_pii(items, policy=policy)
ClassifyOverall ==
    /\ pc = "policy"
    /\ pc' = "policy_called"
    /\ \E items \in ItemLists(MaxClassified), policy \in PolicyArguments :
          LET r == classify_pii(items, policy)
          IN  policy_call' = [op |-> "classify_pii", base |-> 0,
                              arg |-> items, policy |-> policy,
                              before |-> policy_objects,
                              err |-> r.err, ret |-> r.level]
    /\ UNCHANGED <<data, records, matches, classified, result, prev_result,
                   thresholds, default_confidence, label_score, label>>
    /\ UNCHANGED <<policy_objects, scanVars, storeVars, logVars, validatorVars, appVars>>

\* the caller has used the outcome and goes on to its next call
PolicyReturn ==
    /\ pc = "policy_called"
    /\ pc' = "policy"
    /\ policy_call' = NoCall
    /\ UNCHANGED <<data, records, matches, classified, result, prev_result,
                   thresholds, default_confidence, label_score, label>>
    /\ UNCHANGED <<policy_objects, scanVars, storeVars, logVars, validatorVars, appVars>>

PolicyNext ==
    \/ MergePolicy
    \/ LoadPolicy
    \/ ClassifyDict
    \/ ClassifyDicts
    \/ ClassifyOverall
    \/ PolicyReturn

SpecPolicy == PolicyInit /\ [][PolicyNext]_vars

(***************************************************************************)
(* The scanner driven on files, byte buffers and streams.                  *)
(***************************************************************************)
ScanPathNames == {"a.txt", "b.txt"}

\* What a file can hold: nothing, one line with and without terminator, lines
\* ended by LF, CR LF and CR, empty lines.
FileContents ==
    { <<>>,
      <<"x">>,
      <<"x", "\n">>,
      <<"x", "\n", "y">>,
      <<"x", "\r", "\n", "y", "\n">>,
      <<"x", "\r", "y", "\n", "\n">> }

\* What a string handed to io.StringIO can hold besides: a carriage return
\* before a CR LF.
StringContents == FileContents \cup { <<"x", "\r", "\r", "\n">> }

\* What a byte buffer can hold besides: a form feed or a Unicode line
\* separator inside a line.
BytesContents ==
    FileContents \cup { <<"x", "\f", "y", "\n">>,
                        <<"x", LINE_SEPARATOR, "y">> }

Missing == [exists |-> FALSE, content |-> <<>>]

FileStates == {Missing} \cup {[exists |-> TRUE, content |-> c] : c \in FileContents}

RECURSIVE PathLists(_)
PathLists(n) ==
    IF n = 0 THEN {<<>>}
    ELSE LET shorter == PathLists(n - 1)
         IN  shorter \cup {Append(l, x) : l \in shorter, x \in ScanPathNames}

\* The start_line arguments: an invalid one, the default, a later one.
StartLines == {0, 1, 5}

NoScan ==
    [op |-> "none", paths |-> <<>>, text |-> <<>>, keep_newline |-> FALSE,
     start_line |-> 1, skip_missing |-> FALSE, err |-> "none", records |-> <<>>]

ScanInit ==
    /\ pc = "scanner"
    /\ data = <<>>
    /\ thresholds = DEFAULT_LABEL_THRESHOLDS
    /\ default_confidence = One
    /\ Idle
    /\ PolicyIdle
    /\ files \in [ScanPathNames -> FileStates]
    /\ scan_call = NoScan
    /\ StoreIdle
    /\ LogIdle
    /\ ValidatorIdle
    /\ AppIdle

\* list(scan_paths(paths, keep_newline=..., start_line=..., skip_missing=...))
ScanPaths ==
    /\ pc = "scanner"
    /\ pc' = "scanner_called"
    /\ \E paths \in PathLists(MaxSources), keep_newline \in BOOLEAN,
          start_line \in StartLines, skip_missing \in BOOLEAN :
          LET r == scan_paths(files, paths, keep_newline, start_line, skip_missing)
          IN  scan_call' = [op |-> "scan_paths", paths |-> paths, text |-> <<>>,
                            keep_newline |-> keep_newline,
                            start_line |-> start_line,
                            skip_missing |-> skip_missing,
                            err |-> r.err, records |-> r.records]
    /\ UNCHANGED <<data, records, matches, classified, result, prev_result,
                   thresholds, default_confidence, label_score, label>>
    /\ UNCHANGED <<files, policyVars, storeVars, logVars, validatorVars, appVars>>

\* list(scan_bytes(data, keep_newline=..., start_line=...))
ScanBytes ==
    /\ pc = "scanner"
    /\ pc' = "scanner_called"
    /\ \E text \in BytesContents,
          keep_newline \in BOOLEAN, start_line \in StartLines :
          LET r == scan_bytes(text, "<bytes>", keep_newline, start_line)
          IN  scan_call' = [op |-> "scan_bytes", paths |-> <<>>, text |-> text,
                            keep_newline |-> keep_newline,
                            start_line |-> start_line, skip_missing |-> FALSE,
                            err |-> r.err, records |-> r.records]
    /\ UNCHANGED <<data, records, matches, classified, result, prev_result,
                   thresholds, default_confidence, label_score, label>>
    /\ UNCHANGED <<files, policyVars, storeVars, logVars, validatorVars, appVars>>

\* list(scan_text_stream(stream, keep_newline=..., start_line=...)), the
\* stream an open file
ScanTextStream ==
    /\ pc = "scanner"
    /\ pc' = "scanner_called"
    /\ \E text \in FileContents, keep_newline \in BOOLEAN,
          start_line \in StartLines :
          LET r == scan_text_stream(StreamLines(text), "<stream>", start_line,
                                    keep_newline)
          IN  scan_call' = [op |-> "scan_text_stream", paths |-> <<>>,
                            text |-> text, keep_newline |-> keep_newline,
                            start_line |-> start_line, skip_missing |-> FALSE,
                            err |-> r.err, records |-> r.records]
    /\ UNCHANGED <<data, records, matches, classified, result, prev_result,
                   thresholds, default_confidence, label_score, label>>
    /\ UNCHANGED <<files, policyVars, storeVars, logVars, validatorVars, appVars>>

\* list(scan_text_stream(io.StringIO(text), keep_newline=..., start_line=...))
ScanStringIO ==
    /\ pc = "scanner"
    /\ pc' = "scanner_called"
    /\ \E text \in StringContents, keep_newline \in BOOLEAN,
          start_line \in StartLines :
          LET r == scan_text_stream(NewlineLines(text), "<stream>", start_line,
                                    keep_newline)
          IN  scan_call' = [op |-> "scan_string_io", paths |-> <<>>,
                            text |-> text, keep_newline |-> keep_newline,
                            start_line |-> start_line, skip_missing |-> FALSE,
                            err |-> r.err, records |-> r.records]
    /\ UNCHANGED <<data, records, matches, classified, result, prev_result,
                   thresholds, default_confidence, label_score, label>>
    /\ UNCHANGED <<files, policyVars, storeVars, logVars, validatorVars, appVars>>

\* the caller has consumed the records and goes on to its next call
ScanReturn ==
    /\ pc = "scanner_called"
    /\ pc' = "scanner"
    /\ scan_call' = NoScan
    /\ UNCHANGED <<data, records, matches, classified, result, prev_result,
                   thresholds, default_confidence, label_score, label>>
    /\ UNCHANGED <<files, policyVars, storeVars, logVars, validatorVars, appVars>>

ScanNext ==
    \/ ScanPaths
    \/ ScanBytes
    \/ ScanTextStream
    \/ ScanStringIO
    \/ ScanReturn

SpecScan == ScanInit /\ [][ScanNext]_vars

(***************************************************************************)
(* The TTL store called by one caller: every call runs alone, time passes  *)
(* between calls and inside add.                                           *)
(***************************************************************************)
\* The payload of the n-th add: every add stores a payload of its own.
PayloadOf(n) == "payload " \o ToString(n)

TtlChoices == {0, 2}

\* The scan ids a caller can pass: one of its own choosing or one it was
\* handed back by an earlier add.
KnownIds == {"a"} \cup {added[i].scan_id : i \in 1 .. Len(added)}

NoStoreCall == [op |-> "none", arg |-> None, at |-> 0, ret |-> None]

\* The record of an add that has returned; cleared once clear() has run.
AddedCall(scan_id, payload, stored_at, ttl_seconds) ==
    [scan_id |-> scan_id, payload |-> payload, stored_at |-> stored_at,
     ttl_seconds |-> ttl_seconds, cleared |-> FALSE]

StoreInit ==
    /\ pc = "store"
    /\ data = <<>>
    /\ thresholds = DEFAULT_LABEL_THRESHOLDS
    /\ default_confidence = One
    /\ Idle
    /\ PolicyIdle
    /\ ScanIdle
    /\ LogIdle
    /\ ValidatorIdle
    /\ AppIdle
    /\ _storage = <<>>
    /\ clock = 0
    /\ uuid_count = 0
    /\ store_call = NoStoreCall
    /\ added = <<>>
    /\ threads = <<>>

\* time passes
Tick ==
    /\ pc \in {"store", "store_threads"}
    /\ clock < MaxTime
    /\ clock' = clock + 1
    /\ UNCHANGED <<_storage, uuid_count, store_call, added, threads, allButStore>>

\* add(payload, scan_id=..., ttl_seconds=...)
Add ==
    /\ pc = "store"
    /\ Len(added) < MaxAdds
    /\ \E scan_id \in KnownIds \cup {None}, ttl_seconds \in TtlChoices,
          t_store \in {clock, Min2(clock + 1, MaxTime)} :
          LET payload == PayloadOf(Len(added) + 1)
              r == add(_storage, payload, scan_id, ttl_seconds, clock, t_store,
                       Uuid4(uuid_count + 1))
          IN  /\ _storage' = r.storage
              /\ clock' = t_store
              /\ uuid_count' = IF scan_id = None THEN uuid_count + 1 ELSE uuid_count
              /\ store_call' = [op |-> "add", arg |-> scan_id, at |-> t_store,
                                ret |-> r.ret]
              /\ added' = Append(added,
                                 AddedCall(r.ret, payload, t_store, ttl_seconds))
    /\ UNCHANGED <<threads, allButStore>>

\* get(scan_id)
Get ==
    /\ pc = "store"
    /\ \E scan_id \in KnownIds :
          LET r == get(_storage, scan_id, clock)
          IN  /\ _storage' = r.storage
              /\ store_call' = [op |-> "get", arg |-> scan_id, at |-> clock,
                                ret |-> r.ret]
    /\ UNCHANGED <<clock, uuid_count, added, threads, allButStore>>

\* get_all_non_expired()
GetAllNonExpired ==
    /\ pc = "store"
    /\ LET r == get_all_non_expired(_storage, clock)
       IN  /\ _storage' = r.storage
           /\ store_call' = [op |-> "get_all_non_expired", arg |-> None,
                             at |-> clock, ret |-> r.ret]
    /\ UNCHANGED <<clock, uuid_count, added, threads, allButStore>>

\* clear()
Clear ==
    /\ pc = "store"
    /\ _storage' = <<>>
    /\ store_call' = [op |-> "clear", arg |-> None, at |-> clock, ret |-> None]
    /\ added' = [i \in 1 .. Len(added) |-> [added[i] EXCEPT !.cleared = TRUE]]
    /\ UNCHANGED <<clock, uuid_count, threads, allButStore>>

StoreNext == Tick \/ Add \/ Get \/ GetAllNonExpired \/ Clear

SpecStore == StoreInit /\ [][StoreNext]_vars

(***************************************************************************)
(* The TTL store called by parallel threads.  The module holds no lock, so *)
(* the calls interleave at their reads and writes of _storage: the prune   *)
(* reads the list and builds the filtered one, then assigns it; add then   *)
(* appends to the list; get then walks it.                                 *)
(***************************************************************************)
ThreadIds == {1, 2}

IdleThread ==
    [at |-> "idle", op |-> "none", arg |-> None, ttl_seconds |-> 0,
     payload |-> None, kept |-> <<>>, began |-> 0, ret |-> None, now |-> 0]

\* the add calls that have begun and not returned
AddsInFlight ==
    Cardinality({t \in ThreadIds : threads[t].op = "add" /\ threads[t].at # "idle"})

StoreThreadsInit ==
    /\ pc = "store_threads"
    /\ data = <<>>
    /\ thresholds = DEFAULT_LABEL_THRESHOLDS
    /\ default_confidence = One
    /\ Idle
    /\ PolicyIdle
    /\ ScanIdle
    /\ LogIdle
    /\ ValidatorIdle
    /\ AppIdle
    /\ _storage = <<>>
    /\ clock = 0
    /\ uuid_count = 0
    /\ store_call = NoStoreCall
    /\ added = <<>>
    /\ threads = [t \in ThreadIds |-> IdleThread]

\* add(payload, ttl_seconds=...) is called: _prune_expired reads the clock and
\* builds the filtered list from _storage
ThreadAddPruneRead(t) ==
    /\ pc = "store_threads"
    /\ threads[t].at = "idle"
    /\ Len(added) + AddsInFlight < MaxAdds
    /\ \E ttl_seconds \in TtlChoices :
          threads' = [threads EXCEPT ![t] =
                        [at |-> "add_prune_write", op |-> "add", arg |-> None,
                         ttl_seconds |-> ttl_seconds,
                         payload |-> PayloadOf(Len(added) + AddsInFlight + 1),
                         kept |-> Kept(_storage, clock), began |-> Len(added),
                         ret |-> None, now |-> clock]]
    /\ UNCHANGED <<_storage, clock, uuid_count, store_call, added, allButStore>>

\* get(scan_id) is called with an id an earlier add returned
ThreadGetPruneRead(t) ==
    /\ pc = "store_threads"
    /\ threads[t].at = "idle"
    /\ \E i \in 1 .. Len(added) :
          threads' = [threads EXCEPT ![t] =
                        [at |-> "get_prune_write", op |-> "get",
                         arg |-> added[i].scan_id, ttl_seconds |-> 0,
                         payload |-> None, kept |-> Kept(_storage, clock),
                         began |-> Len(added), ret |-> None, now |-> clock]]
    /\ UNCHANGED <<_storage, clock, uuid_count, store_call, added, allButStore>>

\* _prune_expired assigns the list it built to _storage
ThreadPruneWrite(t) ==
    /\ pc = "store_threads"
    /\ threads[t].at \in {"add_prune_write", "get_prune_write"}
    /\ _storage' = threads[t].kept
    /\ threads' = [threads EXCEPT ![t].at =
                     IF threads[t].op = "add" THEN "add_append" ELSE "get_scan"]
    /\ UNCHANGED <<clock, uuid_count, store_call, added, allButStore>>

\* add generates the id, builds the entry, appends it and returns the id
ThreadAddAppend(t) ==
    /\ pc = "store_threads"
    /\ threads[t].at = "add_append"
    /\ LET sid == Uuid4(uuid_count + 1)
           entry == Entry(sid, clock, threads[t].ttl_seconds, threads[t].payload)
       IN  /\ _storage' = Append(_storage, entry)
           /\ uuid_count' = uuid_count + 1
           /\ added' = Append(added, AddedCall(sid, threads[t].payload, clock,
                                               threads[t].ttl_seconds))
           /\ threads' = [threads EXCEPT ![t].at = "idle", ![t].ret = sid,
                                         ![t].now = clock]
    /\ UNCHANGED <<clock, store_call, allButStore>>

\* get walks _storage and returns the first payload stored under the id
ThreadGetScan(t) ==
    /\ pc = "store_threads"
    /\ threads[t].at = "get_scan"
    /\ threads' = [threads EXCEPT ![t].at = "idle",
                                  ![t].ret = FirstPayload(_storage, threads[t].arg),
                                  ![t].now = clock]
    /\ UNCHANGED <<_storage, clock, uuid_count, store_call, added, allButStore>>

StoreThreadsNext ==
    \/ Tick
    \/ \E t \in ThreadIds : ThreadAddPruneRead(t)
    \/ \E t \in ThreadIds : ThreadGetPruneRead(t)
    \/ \E t \in ThreadIds : ThreadPruneWrite(t)
    \/ \E t \in ThreadIds : ThreadAddAppend(t)
    \/ \E t \in ThreadIds : ThreadGetScan(t)

SpecStoreThreads == StoreThreadsInit /\ [][StoreThreadsNext]_vars

(***************************************************************************)
(* utils/log_sanitize.py.  Containers are objects on a heap, so that a     *)
(* copy and the original are different things: a cell has a kind and its   *)
(* items as <<key, value>> pairs in order (the key of a list or tuple item *)
(* is ""), a value is a primitive (ref 0) or the reference of a cell.      *)
(***************************************************************************)
PII_VALUE_KEY == "value"

REDACTED_PLACEHOLDER == "[REDACTED]"

Primitive(a) == [ref |-> 0, atom |-> a]

Reference(r) == [ref |-> r, atom |-> ""]

Cell(kind, items) == [kind |-> kind, items |-> items]

\* Only mappings redact, and only the list and the tuple are walked besides.
RecursedMappingsAndListsOnly(kind) == kind \in {"dict", "list"}

\* isinstance(obj, Mapping) / isinstance(obj, list) / isinstance(obj, tuple)
Recursed(kind) == kind \in {"dict", "list", "tuple"}

RECURSIVE sanitize_for_log(_, _)
RECURSIVE SanitizeItems(_, _, _, _, _)
\* The loop and the comprehensions: item i of the input cell goes into the
\* new cell out, redacted under the value key of a mapping and sanitized
\* otherwise.
SanitizeItems(heap, out, kind, items, i) ==
    IF i > Len(items) THEN heap
    ELSE LET k == items[i][1]
             v == items[i][2]
         IN  IF kind = "dict" /\ k = PII_VALUE_KEY
             THEN SanitizeItems(
                      [heap EXCEPT ![out].items =
                           Append(@, <<k, Primitive(REDACTED_PLACEHOLDER)>>)],
                      out, kind, items, i + 1)
             ELSE LET r == sanitize_for_log(heap, v)
                  IN  SanitizeItems(
                          [r.heap EXCEPT ![out].items = Append(@, <<k, r.val>>)],
                          out, kind, items, i + 1)

\* sanitize_for_log(obj): the heap after the call and the value returned.
sanitize_for_log(heap, obj) ==
    IF obj.ref = 0 \/ ~Recursed(heap[obj.ref].kind)
    THEN [heap |-> heap, val |-> obj]
    ELSE LET cell == heap[obj.ref]
             fresh == Append(heap, Cell(cell.kind, <<>>))
             out == Len(fresh)
         IN  [heap |-> SanitizeItems(fresh, out, cell.kind, cell.items, 1),
              val |-> Reference(out)]

(***************************************************************************)
(* The sanitizer driven on structures the program has built.               *)
(***************************************************************************)
\* The primitives a structure holds.
LogAtoms == {"x"}

LogPrimitives == {Primitive(a) : a \in LogAtoms}

\* The values a new container can hold: a primitive or an object that exists.
LogValues == LogPrimitives \cup {Reference(r) : r \in 1 .. Len(log_heap)}

\* The values handed to the sanitizer: a primitive or the object built last.
LogArguments ==
    LogPrimitives \cup {Reference(r) : r \in {Len(log_heap)} \ {0}}

\* The cells the program builds: mappings with the value key, another key or
\* both (a finding: a primitive under the value key), lists of up to two
\* items, tuples of up to one, and an object of another type (a set, a
\* dataclass instance) holding one value.
LogCells ==
    {Cell("dict", <<>>)}
    \cup {Cell("dict", << <<k, v>> >>) : k \in {PII_VALUE_KEY, "meta"}, v \in LogValues}
    \cup {Cell("dict", << <<PII_VALUE_KEY, v>>, <<"meta", w>> >>) :
             v \in LogPrimitives, w \in LogValues}
    \cup {Cell("list", <<>>)}
    \cup {Cell("list", << <<"", v>> >>) : v \in LogValues}
    \cup {Cell("list", << <<"", v>>, <<"", w>> >>) : v \in LogValues, w \in LogValues}
    \cup {Cell("tuple", <<>>)}
    \cup {Cell("tuple", << <<"", v>> >>) : v \in LogValues}
    \cup {Cell("object", << <<"", v>> >>) : v \in LogValues}

NoLogCall == [obj |-> Primitive(""), before |-> <<>>, val |-> Primitive("")]

LogInit ==
    /\ pc = "log"
    /\ data = <<>>
    /\ thresholds = DEFAULT_LABEL_THRESHOLDS
    /\ default_confidence = One
    /\ Idle
    /\ PolicyIdle
    /\ ScanIdle
    /\ StoreIdle
    /\ ValidatorIdle
    /\ AppIdle
    /\ log_heap = <<>>
    /\ log_call = NoLogCall

\* the program builds a container from primitives and containers it has
LogBuild ==
    /\ pc = "log"
    /\ Len(log_heap) < MaxCells
    /\ \E c \in LogCells : log_heap' = Append(log_heap, c)
    /\ UNCHANGED <<log_call, coreVars, allButLog>>

\* out = sanitize_for_log(obj), and out goes to the log
SanitizeForLog ==
    /\ pc = "log"
    /\ pc' = "logged"
    /\ \E obj \in LogArguments :
          LET r == sanitize_for_log(log_heap, obj)
          IN  /\ log_heap' = r.heap
              /\ log_call' = [obj |-> obj, before |-> log_heap, val |-> r.val]
    /\ UNCHANGED <<data, records, matches, classified, result, prev_result,
                   thresholds, default_confidence, label_score, label>>
    /\ UNCHANGED allButLog

LogNext == LogBuild \/ SanitizeForLog

SpecLog == LogInit /\ [][LogNext]_vars

(***************************************************************************)
(* risk_scoring/pii_spacy_validator.py.  A sentence and an email value are *)
(* sequences of tokens: a token is a whole word (a maximal run of \w), or  *)
(* one character of punctuation or white space; a number is written one   *)
(* digit per token.  A confidence is a number of hundredths.               *)
(***************************************************************************)
\* str.lower() on the words of the model that have capitals
Lowered ==
    [w \in {"Contact", "BOB", "EXAMPLE", "ORG"} |->
        CASE w = "Contact" -> "contact"
          [] w = "BOB" -> "bob"
          [] w = "EXAMPLE" -> "example"
          [] w = "ORG" -> "org"]

Lower(w) == IF w \in DOMAIN Lowered THEN Lowered[w] ELSE w

LowerAll(t) == [i \in 1 .. Len(t) |-> Lower(t[i])]

\* one or more white space tokens from position i on: the position after them
RECURSIVE SkipSpaces(_, _)
SkipSpaces(t, i) ==
    IF i <= Len(t) /\ t[i] \in SpaceChars THEN SkipSpaces(t, i + 1) ELSE i

\* the words a, b are at position i with white space between them
PhraseAt(t, i, a, b) ==
    /\ Lower(t[i]) = a
    /\ i + 1 <= Len(t)
    /\ t[i + 1] \in SpaceChars
    /\ LET j == SkipSpaces(t, i + 1)
       IN  j <= Len(t) /\ Lower(t[j]) = b

IsWordToken(w) == w \notin SpaceChars \cup {"@", ".", "+", "-", ","}

\* _DUMMY_CONTEXT_RE.search(sentence)
DummyContextWords ==
    {"example", "eg", "sample", "dummy", "fake", "fictional", "placeholder",
     "test", "testing", "demo", "lorem", "ipsum", "mock", "fixture", "seed",
     "stub"}

DummyContext(t) ==
    \E i \in 1 .. Len(t) :
       \/ Lower(t[i]) \in DummyContextWords
       \/ PhraseAt(t, i, "not", "real")
       \/ PhraseAt(t, i, "for", "example")
       \/ PhraseAt(t, i, "like", "this")
       \/ /\ i + 4 <= Len(t)
          /\ LowerAll(SubSeq(t, i, i + 3)) = <<"e", ".", "g", ".">>
          /\ IsWordToken(t[i + 4])

\* _REAL_CONTEXT_RE.search(sentence)
RealContextWords ==
    {"contact", "call", "reach", "email", "mail", "phone", "mobile",
     "whatsapp", "support", "helpdesk", "customer", "client", "employee",
     "user", "applicant", "verification", "otp", "kyc", "uidai", "aadhaar"}

RealContext(t) == \E i \in 1 .. Len(t) : Lower(t[i]) \in RealContextWords

\* _DUMMY_EMAIL_DOMAIN_RE.search(value)
DummyEmailDomains ==
    { <<"example", ".", "com">>, <<"example", ".", "org">>,
      <<"example", ".", "net">>, <<"test", ".", "com">>,
      <<"invalid">>, <<"localhost">> }

DummyEmailDomain(value) ==
    \E i \in 1 .. Len(value) :
       /\ value[i] = "@"
       /\ \E d \in DummyEmailDomains :
             /\ i + Len(d) <= Len(value)
             /\ LowerAll(SubSeq(value, i + 1, i + Len(d))) = d

\* s in t, for sequences
ContainsSeq(t, s) ==
    \E i \in 1 .. Len(t) - Len(s) + 1 : SubSeq(t, i, i + Len(s) - 1) = s

\* _looks_like_dummy_number(digits)
looks_like_dummy_number(digits) ==
    \/ Len(digits) < 7
    \/ Cardinality({digits[i] : i \in 1 .. Len(digits)}) = 1
    \/ ContainsSeq(digits, <<"0", "0", "0", "0", "0", "0">>)
    \/ ContainsSeq(digits, <<"1", "2", "3", "4", "5", "6">>)
    \/ ContainsSeq(digits, <<"9", "8", "7", "6", "5", "4">>)
    \/ digits \in { <<"1", "2", "3", "4", "5", "6", "7", "8", "9", "0">>,
                    <<"0", "9", "8", "7", "6", "5", "4", "3", "2", "1">> }

\* the words that have "aadhaar" or "uidai" in them
AadhaarMentions == {"aadhaar", "uidai"}

\* _find_sentence_for_value(doc, value): a doc is what nlp(line) returned,
\* its text and its sentences (none when the pipeline does not segment)
RECURSIVE FindSentence(_, _, _)
FindSentence(doc, value, i) ==
    IF i > Len(doc.sents) THEN Strip(doc.text)
    ELSE IF ContainsSeq(LowerAll(doc.sents[i]), LowerAll(value))
         THEN Strip(doc.sents[i])
         ELSE FindSentence(doc, value, i + 1)

\* score += n when the condition holds
Add1(flag, n) == IF flag THEN n ELSE 0

Max2(a, b) == IF a >= b THEN a ELSE b

\* The body of the loop of validate_detected_pii_with_spacy for one item:
\* line_lookup is the mapping built from the records, nlp the pipeline.
ValidateItem(item, line_lookup, nlp) ==
    LET key == <<item.file, item.line_number>>
        line == IF key \in DOMAIN line_lookup THEN line_lookup[key] ELSE <<>>
        doc == nlp[line]
        sentence == FindSentence(doc, item.value, 1)
        digits == DigitsOnly(item.value)
        dummy_number == looks_like_dummy_number(digits)
        score ==
            Add1(DummyContext(sentence), -2)
            + Add1(RealContext(sentence), 1)
            + Add1(item.type = "email" /\ DummyEmailDomain(item.value), -3)
            + Add1(item.type = "phone" /\ dummy_number, -2)
            + Add1(/\ item.type = "aadhaar"
                   /\ \/ dummy_number
                      \/ (Len(digits) >= 4 /\ SubSeq(digits, 1, 4) = <<"1", "2", "3", "4">>)
                      \/ (/\ Len(digits) >= 4
                          /\ SubSeq(digits, Len(digits) - 3, Len(digits))
                               = <<"9", "0", "1", "2">>),
                   -2)
            + Add1(/\ item.type = "aadhaar"
                   /\ \E i \in 1 .. Len(sentence) :
                         Lower(sentence[i]) \in AadhaarMentions,
                   1)
            + Add1(doc.person_or_org /\ item.type \in {"email", "phone"}, 1)
    IN  [type |-> item.type, value |-> item.value, file |-> item.file,
         line_number |-> item.line_number,
         verdict |-> IF score >= 2 THEN "real"
                     ELSE IF score <= -2 THEN "dummy" ELSE "uncertain",
         confidence |-> IF score >= 2 \/ score <= -2 THEN 85
                        ELSE Max2(25, Min2(75, 50 + 10 * score)),
         context_sentence |-> sentence,
         score |-> score]

\* validate_detected_pii_with_spacy(pii, records, nlp=nlp)
validate_detected_pii_with_spacy(pii, line_lookup, nlp) ==
    [i \in 1 .. Len(pii) |-> ValidateItem(pii[i], line_lookup, nlp)]

\* _get_default_nlp(model): the import of the library fails when it is not
\* installed and the error goes to the caller; a model that cannot be loaded
\* is replaced by the blank English pipeline with a sentencizer.
_get_default_nlp(installed, loadable) ==
    IF ~installed THEN [err |-> "ModuleNotFoundError", pipeline |-> "none"]
    ELSE [err |-> "none", pipeline |-> IF loadable THEN "model" ELSE "blank"]

\* What a default pipeline returns for a line: the line as one sentence; only
\* a loaded model finds entities.
DefaultDocs(pipeline, line) ==
    { [l \in {line} |-> [text |-> line, sents |-> <<line>>, person_or_org |-> e]] :
         e \in IF pipeline = "model" THEN BOOLEAN ELSE {FALSE} }

\* validate_detected_pii_with_spacy(pii, records) with nlp=None: the
\* outcomes, one for each thing the pipeline obtained can find in the line
validate_with_default_nlp(pii, line_lookup, line, installed, loadable) ==
    LET got == _get_default_nlp(installed, loadable)
    IN  IF got.err # "none" THEN {[err |-> got.err, out |-> <<>>]}
        ELSE {[err |-> "none",
               out |-> validate_detected_pii_with_spacy(pii, line_lookup, nlp)] :
                 nlp \in DefaultDocs(got.pipeline, line)}

(***************************************************************************)
(* The validator driven on two findings of one line.                       *)
(***************************************************************************)
EmailValues ==
    { <<"bob", "@", "corp", ".", "io">>,
      <<"user", "@", "corp", ".", "io">>,
      <<"bob", "@", "localhost">>,
      <<"bob", "@", "invalid">>,
      <<"bob", "@", "example", ".", "com">>,
      <<"BOB", "@", "EXAMPLE", ".", "ORG">>,
      <<"bob", "@", "sub", ".", "example", ".", "com">> }

PhoneValues ==
    { <<"9", "4", "1", "5", "8", "2", "6", "0", "3", "7">>,
      <<"1", "2", "3", "4", "5", "6", "7", "8", "9", "0">>,
      <<"9", "9", "9", "9", "9", "9", "9", "9", "9", "9">>,
      <<"9", "8", "7", "6", "5", "4", "3", "2", "1", "0">> }

AadhaarValues ==
    { <<"9", "4", "1", "5", "8", "2", "6", "0", "3", "7", "4", "5">>,
      <<"1", "1", "1", "1", "1", "1", "1", "1", "1", "1", "1", "1">>,
      <<"1", "2", "3", "4", "8", "2", "6", "0", "3", "7", "4", "5">> }

ValuesOf(type) ==
    CASE type = "email" -> EmailValues
      [] type = "phone" -> PhoneValues
      [] type = "aadhaar" -> AadhaarValues

\* What stands on the line before the two values.
ContextPhrases ==
    { <<>>,
      <<"Contact", " ">>,
      <<"for", " ", "example", " ">>,
      <<"not", " ", "real", " ">>,
      <<"aadhaar", " ">>,
      <<"call", " ", "the", " ", "demo", " ">> }

\* The pipelines: a blank one that does not segment, one that returns the
\* line as one sentence, each with or without a PERSON or ORG entity found.
Pipelines(line) ==
    { [l \in {line} |-> [text |-> line, sents |-> sents, person_or_org |-> e]] :
         sents \in {<<>>, <<line>>}, e \in BOOLEAN }

NoValidation ==
    [pii |-> <<>>, line |-> <<>>, out |-> <<>>, injected |-> TRUE,
     installed |-> TRUE, loadable |-> TRUE, err |-> "none"]

ValidatorInit ==
    /\ pc = "validator"
    /\ data = <<>>
    /\ thresholds = DEFAULT_LABEL_THRESHOLDS
    /\ default_confidence = One
    /\ Idle
    /\ PolicyIdle
    /\ ScanIdle
    /\ StoreIdle
    /\ LogIdle
    /\ AppIdle
    /\ validator_call = NoValidation

\* validate_detected_pii_with_spacy([first, second], records, nlp=nlp): two
\* findings of one type on line 1 of a file whose record is the line
Validate ==
    /\ pc = "validator"
    /\ pc' = "validated"
    /\ \E type \in {"email", "phone", "aadhaar"}, phrase \in ContextPhrases :
          \E first \in ValuesOf(type), second \in ValuesOf(type) :
             LET line == phrase \o first \o <<" ">> \o second
                 pii == << [type |-> type, value |-> first, file |-> "f",
                            line_number |-> 1],
                           [type |-> type, value |-> second, file |-> "f",
                            line_number |-> 1] >>
                 line_lookup == [k \in {<<"f", 1>>} |-> line]
             IN  \E nlp \in Pipelines(line) :
                    validator_call' =
                        [pii |-> pii, line |-> line,
                         out |-> validate_detected_pii_with_spacy(pii, line_lookup, nlp),
                         injected |-> TRUE, installed |-> TRUE,
                         loadable |-> TRUE, err |-> "none"]
    /\ UNCHANGED <<data, records, matches, classified, result, prev_result,
                   thresholds, default_confidence, label_score, label>>
    /\ UNCHANGED allButValidator

\* validate_detected_pii_with_spacy([first, second], records): no pipeline
\* is handed in, and the library and the model are there or not
ValidateDefault ==
    /\ pc = "validator"
    /\ \E type \in {"email", "phone", "aadhaar"}, phrase \in ContextPhrases,
          installed \in BOOLEAN, loadable \in BOOLEAN :
          \E first \in ValuesOf(type), second \in ValuesOf(type) :
             LET line == phrase \o first \o <<" ">> \o second
                 pii == << [type |-> type, value |-> first, file |-> "f",
                            line_number |-> 1],
                           [type |-> type, value |-> second, file |-> "f",
                            line_number |-> 1] >>
                 line_lookup == [k \in {<<"f", 1>>} |-> line]
             IN  \E r \in validate_with_default_nlp(pii, line_lookup, line,
                                                    installed, loadable) :
                    /\ validator_call' =
                          [pii |-> pii, line |-> line, out |-> r.out,
                           injected |-> FALSE, installed |-> installed,
                           loadable |-> loadable, err |-> r.err]
                    /\ pc' = IF r.err = "none" THEN "validated"
                             ELSE "validator_raised"
    /\ UNCHANGED <<data, records, matches, classified, result, prev_result,
                   thresholds, default_confidence, label_score, label>>
    /\ UNCHANGED allButValidator

\* the caller has used the outcome and goes on to its next call
ValidatorReturn ==
    /\ pc \in {"validated", "validator_raised"}
    /\ pc' = "validator"
    /\ validator_call' = NoValidation
    /\ UNCHANGED <<data, records, matches, classified, result, prev_result,
                   thresholds, default_confidence, label_score, label>>
    /\ UNCHANGED allButValidator

ValidatorNext == Validate \/ ValidateDefault \/ ValidatorReturn

SpecValidator == ValidatorInit /\ [][ValidatorNext]_vars

(***************************************************************************)
(* app.py: the script Streamlit reruns for each browser session.  The      *)
(* sessions run in threads of one process and share the module             *)
(* utils.temp_storage; a rerun goes through the store's reads and writes   *)
(* of _storage as any caller does.  The payload of a scan is what          *)
(* analyze_uploaded_file returned for it.                                  *)
(***************************************************************************)
DEFAULT_TTL_SECONDS == 600

Sessions == {1, 2}

\* The readings of the clock: around the scan, around the end of the TTL and
\* long after it.
AppTimes ==
    {0, 1, DEFAULT_TTL_SECONDS - 1, DEFAULT_TTL_SECONDS, DEFAULT_TTL_SECONDS + 1,
     2 * DEFAULT_TTL_SECONDS}

Page(kind, payload) == [kind |-> kind, payload |-> payload]

\* the scans that have begun and whose add has not returned
ScansInFlight ==
    Cardinality({t \in Sessions : threads[t].op = "click" /\ threads[t].at # "idle"})

\* a rerun of another session is under way
OtherRunning(t) == \E u \in Sessions \ {t} : threads[u].at # "idle"

AppInit ==
    /\ pc = "app"
    /\ data = <<>>
    /\ thresholds = DEFAULT_LABEL_THRESHOLDS
    /\ default_confidence = One
    /\ Idle
    /\ PolicyIdle
    /\ ScanIdle
    /\ LogIdle
    /\ ValidatorIdle
    /\ _storage = <<>>
    /\ clock = 0
    /\ uuid_count = 0
    /\ store_call = NoStoreCall
    /\ added = <<>>
    /\ threads = [t \in Sessions |-> IdleThread]
    /\ session_state = [t \in Sessions |-> None]
    /\ shown = [t \in Sessions |-> Page("blank", None)]
    /\ overlapped = FALSE

\* time passes
AppTick ==
    /\ pc = "app"
    /\ \E t \in AppTimes : t > clock /\ clock' = t
    /\ UNCHANGED <<_storage, uuid_count, store_call, added, threads, appVars,
                   coreVars, allButApp>>

\* the button is clicked with no file uploaded: a warning, nothing else
AppClickWithoutFile(t) ==
    /\ pc = "app"
    /\ threads[t].at = "idle"
    /\ threads' = [threads EXCEPT ![t] = [IdleThread EXCEPT !.op = "click"]]
    /\ shown' = [shown EXCEPT ![t] = Page("warning", None)]
    /\ overlapped' = (overlapped \/ OtherRunning(t))
    /\ UNCHANGED <<_storage, clock, uuid_count, store_call, added, session_state,
                   coreVars, allButApp>>

\* the button is clicked with a file: the file is analysed and
\* temp_storage.add(display_payload, ttl_seconds=DEFAULT_TTL_SECONDS) begins,
\* _prune_expired reading the clock and building the filtered list
AppClickPruneRead(t) ==
    /\ pc = "app"
    /\ threads[t].at = "idle"
    /\ Len(added) + ScansInFlight < MaxAdds
    /\ threads' = [threads EXCEPT ![t] =
                     [at |-> "add_prune_write", op |-> "click", arg |-> None,
                      ttl_seconds |-> DEFAULT_TTL_SECONDS,
                      payload |-> PayloadOf(Len(added) + ScansInFlight + 1),
                      kept |-> Kept(_storage, clock), began |-> Len(added),
                      ret |-> None, now |-> clock]]
    /\ overlapped' = (overlapped \/ OtherRunning(t))
    /\ UNCHANGED <<_storage, clock, uuid_count, store_call, added, session_state,
                   shown, coreVars, allButApp>>

\* a rerun without a click and without a scan id in the session: the hint
AppRerunWithoutScan(t) ==
    /\ pc = "app"
    /\ threads[t].at = "idle"
    /\ session_state[t] = None
    /\ threads' = [threads EXCEPT ![t] = [IdleThread EXCEPT !.op = "rerun"]]
    /\ shown' = [shown EXCEPT ![t] = Page("info", None)]
    /\ overlapped' = (overlapped \/ OtherRunning(t))
    /\ UNCHANGED <<_storage, clock, uuid_count, store_call, added, session_state,
                   coreVars, allButApp>>

\* a rerun without a click, a scan id in the session:
\* _get_display_payload(last_scan_id) begins, _prune_expired reading the clock
\* and building the filtered list
AppRerunPruneRead(t) ==
    /\ pc = "app"
    /\ threads[t].at = "idle"
    /\ session_state[t] # None
    /\ threads' = [threads EXCEPT ![t] =
                     [at |-> "get_prune_write", op |-> "rerun",
                      arg |-> session_state[t], ttl_seconds |-> 0,
                      payload |-> None, kept |-> Kept(_storage, clock),
                      began |-> Len(added), ret |-> None, now |-> clock]]
    /\ overlapped' = (overlapped \/ OtherRunning(t))
    /\ UNCHANGED <<_storage, clock, uuid_count, store_call, added, session_state,
                   shown, coreVars, allButApp>>

\* _prune_expired assigns the list it built to _storage
AppPruneWrite(t) ==
    /\ pc = "app"
    /\ threads[t].at \in {"add_prune_write", "get_prune_write"}
    /\ _storage' = threads[t].kept
    /\ threads' = [threads EXCEPT ![t].at =
                     IF threads[t].op = "click" THEN "add_append" ELSE "get_scan"]
    /\ overlapped' = (overlapped \/ OtherRunning(t))
    /\ UNCHANGED <<clock, uuid_count, store_call, added, session_state, shown,
                   coreVars, allButApp>>

\* add appends the entry and returns its id; the id goes into the session
\* state and the results onto the page
AppClickAppend(t) ==
    /\ pc = "app"
    /\ threads[t].at = "add_append"
    /\ LET sid == Uuid4(uuid_count + 1)
           entry == Entry(sid, clock, threads[t].ttl_seconds, threads[t].payload)
       IN  /\ _storage' = Append(_storage, entry)
           /\ uuid_count' = uuid_count + 1
           /\ added' = Append(added, AddedCall(sid, threads[t].payload, clock,
                                               threads[t].ttl_seconds))
           /\ threads' = [threads EXCEPT ![t].at = "idle", ![t].ret = sid]
           /\ session_state' = [session_state EXCEPT ![t] = sid]
           /\ shown' = [shown EXCEPT ![t] = Page("results", threads[t].payload)]
    /\ overlapped' = (overlapped \/ OtherRunning(t))
    /\ UNCHANGED <<clock, store_call, coreVars, allButApp>>

\* get walks _storage; the payload found goes onto the page, and when there
\* is none the hint is shown and the scan id leaves the session state
AppRerunScan(t) ==
    /\ pc = "app"
    /\ threads[t].at = "get_scan"
    /\ LET payload == FirstPayload(_storage, threads[t].arg)
       IN  /\ threads' = [threads EXCEPT ![t].at = "idle", ![t].ret = payload]
           /\ IF payload = None
              THEN /\ shown' = [shown EXCEPT ![t] = Page("info", None)]
                   /\ session_state' = [session_state EXCEPT ![t] = None]
              ELSE /\ shown' = [shown EXCEPT ![t] = Page("results", payload)]
                   /\ UNCHANGED session_state
    /\ overlapped' = (overlapped \/ OtherRunning(t))
    /\ UNCHANGED <<_storage, clock, uuid_count, store_call, added,
                   coreVars, allButApp>>

AppNext ==
    \/ AppTick
    \/ \E t \in Sessions : AppClickWithoutFile(t)
    \/ \E t \in Sessions : AppClickPruneRead(t)
    \/ \E t \in Sessions : AppRerunWithoutScan(t)
    \/ \E t \in Sessions : AppRerunPruneRead(t)
    \/ \E t \in Sessions : AppPruneWrite(t)
    \/ \E t \in Sessions : AppClickAppend(t)
    \/ \E t \in Sessions : AppRerunScan(t)

SpecApp == AppInit /\ [][AppNext]_vars

(***************************************************************************)
(* Properties of the detector and of the pipeline (specification Spec).    *)
(***************************************************************************)
Detected == pc \in {"classify", "score", "done"}

\* The matches of the given type, as values, in the order yielded.
ValuesOfType(pii_type) ==
    LET Pick(i) == IF matches[i].pii_type = pii_type
                   THEN <<matches[i].value>> ELSE <<>>
        F[i \in 0 .. Len(matches)] ==
            IF i = 0 THEN <<>> ELSE F[i - 1] \o Pick(i)
    IN  F[Len(matches)]

\* C24: discarding a phone candidate that overlaps a reserved span never
\* suppresses a phone number that overlaps no reserved span: for every line
\* made of a valid aadhaar string (4-4-4, first digit 2-9), one space and a
\* ten-digit mobile number starting 6-9, the detector yields one aadhaar
\* match for the id and one phone match for the mobile number.
C24_IdAndMobileBothYielded ==
    \A id \in IdStrings, m \in MobileNumbers :
        (Detected /\ data = id \o <<" ">> \o m)
        => /\ ValuesOfType("aadhaar") = <<id>>
           /\ ValuesOfType("phone") = <<m>>

\* What the code does on these lines: PHONE_RE's only candidate starts at the
\* id's first digit and runs to the end of the mobile number; it overlaps the
\* reserved aadhaar span and is dropped, and the mobile number with it.
C24_IdYieldedMobileDropped ==
    \A id \in IdStrings, m \in MobileNumbers :
        (Detected /\ data = id \o <<" ">> \o m)
        => /\ ValuesOfType("aadhaar") = <<id>>
           /\ ValuesOfType("phone") = <<>>
           /\ FindIter("phone", data, 1) = <<<<1, Len(data) + 1>>>>

\* C1: no two matches of different PII types that the detector yields for
\* one line have overlapping spans; in particular no national-id (aadhaar)
\* match and no phone match overlaps the span of a yielded email match.
C1_NoCrossTypeOverlap ==
    \A i, j \in 1 .. Len(matches) :
        (/\ matches[i].pii_type # matches[j].pii_type
         /\ matches[i].line_number = matches[j].line_number)
        => ~Overlap(matches[i].span, matches[j].span)

\* The part of C1 the code does keep: a yielded phone match overlaps no
\* yielded email or aadhaar match of its line.
C1_PhoneOverlapsNothing ==
    \A i, j \in 1 .. Len(matches) :
        (/\ matches[i].pii_type = "phone"
         /\ matches[j].pii_type # "phone"
         /\ matches[i].line_number = matches[j].line_number)
        => ~Overlap(matches[i].span, matches[j].span)

\* "91" and ten further digits, written contiguously.
IsCountryCodeNumber(v) ==
    /\ Len(v) = 12
    /\ v[1] = "9"
    /\ v[2] = "1"
    /\ \A k \in 1 .. 12 : v[k] \in Digits

\* C2: the detector never yields an aadhaar (national id) match whose text is
\* 91 followed by ten digits written contiguously, whatever surrounds it;
\* a match with such a text is a phone match.
C2_NoCountryCodeAadhaar ==
    \A i \in 1 .. Len(matches) :
        IsCountryCodeNumber(matches[i].value) => matches[i].pii_type = "phone"

\* A text holding 91 and ten digits between other characters was scanned and
\* the number came out as a phone match.
C2_Witness ==
    /\ Detected
    /\ Len(data) > 12
    /\ \E i \in 1 .. Len(matches) :
          /\ matches[i].pii_type = "phone"
          /\ IsCountryCodeNumber(matches[i].value)

\* C3: the pipeline run on the scenario line yields exactly one email match
\* (dummy.user@example.com) and one phone match (digits 5551234567),
\* classified medium/0.50 and high/0.70, and the score 85.0 labelled critical.
C3_Scenario ==
    (data = ScenarioLine /\ pc = "done") =>
        /\ Len(matches) = 2
        /\ matches[1].pii_type = "email"
        /\ matches[1].value = ScenarioEmail
        /\ matches[2].pii_type = "phone"
        /\ DigitsOnly(matches[2].value)
              = <<"5", "5", "5", "1", "2", "3", "4", "5", "6", "7">>
        /\ Len(classified) = 2
        /\ classified[1].type = "email"
        /\ classified[1].risk_level = "medium"
        /\ classified[1].severity_weight = Fin(50, 100)
        /\ classified[2].type = "phone"
        /\ classified[2].risk_level = "high"
        /\ classified[2].severity_weight = Fin(70, 100)
        /\ result.err = "none"
        /\ result.score = Fin(85, 1)
        /\ result.label = "critical"

\* The pipeline has run to its end on the scenario line.
C3_Witness ==
    /\ data = ScenarioLine
    /\ pc = "done"
    /\ result.item_count = 2

(***************************************************************************)
(* Properties of score_pii_findings (specification SpecScore).             *)
(***************************************************************************)
Scored == pc = "scored"

\* The confidence score_pii_findings reads for raw.
ConfidenceOf(raw) ==
    IF "confidence" \in DOMAIN raw THEN raw["confidence"] ELSE default_confidence

HasSeverity(raw) == "severity_weight" \in DOMAIN raw

\* raw carries a numeric (float) severity_weight and confidence.
NumericItem(raw) ==
    /\ HasSeverity(raw)
    /\ IsFloat(raw["severity_weight"])
    /\ IsFloat(ConfidenceOf(raw))

\* severity_weight > 0 and confidence > 0
PositiveItem(raw) ==
    /\ NumericItem(raw)
    /\ FGt(raw["severity_weight"], Zero)
    /\ FGt(ConfidenceOf(raw), Zero)

InRange(x, lo, hi) == FLe(lo, x) /\ FLe(x, hi)

\* C4: the score of a list with an extra finding of severity_weight > 0 and
\* confidence > 0 appended is greater than or equal to the score of the list
\* without it (same default_confidence and thresholds).
C4_Monotone ==
    (/\ Scored
     /\ Len(classified) >= 1
     /\ PositiveItem(classified[Len(classified)])
     /\ prev_result.err = "none"
     /\ result.err = "none")
    => FGe(result.score, prev_result.score)

\* C4 where the shorter list did not score NaN: there the code is monotone.
C4_MonotoneOnNumbers ==
    (/\ Scored
     /\ Len(classified) >= 1
     /\ PositiveItem(classified[Len(classified)])
     /\ prev_result.err = "none"
     /\ prev_result.score.k # "nan"
     /\ result.err = "none")
    => FGe(result.score, prev_result.score)

\* C5: when every item carries a numeric severity_weight (any magnitude or
\* sign) and a numeric confidence, the returned score lies in [0, 100] and
\* every item's contribution lies in [0, 1].
C5_Bounded ==
    (/\ Scored
     /\ \A k \in 1 .. Len(classified) : NumericItem(classified[k])
     /\ result.err = "none")
    => /\ InRange(result.score, Zero, Hundred)
       /\ \A k \in 1 .. Len(result.scored_items) :
             InRange(result.scored_items[k]["contribution"], Zero, One)

\* C5 without NaN among the inputs: there the clamp keeps the bounds.
C5_BoundedOnNumbers ==
    (/\ Scored
     /\ \A k \in 1 .. Len(classified) :
           /\ NumericItem(classified[k])
           /\ classified[k]["severity_weight"].k # "nan"
           /\ ConfidenceOf(classified[k]).k # "nan"
     /\ result.err = "none")
    => /\ InRange(result.score, Zero, Hundred)
       /\ \A k \in 1 .. Len(result.scored_items) :
             InRange(result.scored_items[k]["contribution"], Zero, One)

\* Every contribution of the result is strictly less than 1.
AllBelowOne ==
    \A k \in 1 .. Len(result.scored_items) :
        FLt(result.scored_items[k]["contribution"], One)

\* C6: when every contribution is strictly less than 1 the score is strictly
\* less than 100; the score is exactly 100 only when some contribution is
\* exactly 1.
C6_StrictlyBelowHundred ==
    (Scored /\ result.err = "none" /\ AllBelowOne)
    => FLt(result.score, Hundred)

\* The product of (1 - contribution) over the scored items from k on.
RECURSIVE ProductFrom(_, _)
ProductFrom(scored, k) ==
    IF k > Len(scored) THEN One
    ELSE FMul(FSub(One, scored[k]["contribution"]), ProductFrom(scored, k + 1))

\* x compared with 5/100000 for a finite x >= 0, without multiplying up.
AboveRoundingGap(x) == x.n > 0 /\ x.d \div x.n < 20000
BelowRoundingGap(x) ==
    x.n = 0 \/ x.d \div x.n > 20000 \/ (x.d \div x.n = 20000 /\ x.d % x.n # 0)

\* C6 as amended: with every contribution below 1 the score never exceeds
\* 100, it is below 100 when the product of (1 - contribution) is above
\* 0.00005, and it is exactly 100 when that product is below 0.00005.
C6_RoundedToHundred ==
    (Scored /\ result.err = "none" /\ AllBelowOne)
    => LET p == ProductFrom(result.scored_items, 1)
       IN  /\ FLe(result.score, Hundred)
           /\ AboveRoundingGap(p) => FLt(result.score, Hundred)
           /\ BelowRoundingGap(p) => result.score = Hundred

\* Three findings, each of contribution 0.99, were scored 100.
C6_Witness ==
    /\ Scored
    /\ result.err = "none"
    /\ Len(result.scored_items) = 3
    /\ AllBelowOne
    /\ result.score = Hundred

\* The tiers of th whose threshold is the lowest.
LowestTiers(th) ==
    {th[i][1] : i \in {x \in 1 .. Len(th) :
                          \A y \in 1 .. Len(th) : FLe(th[x][2], th[y][2])}}

\* C7: scoring an empty list returns score 0, item count 0, no scored items
\* and the label of the lowest-threshold tier of the thresholds in use (low
\* under the default thresholds).
C7_EmptyList ==
    (Scored /\ classified = <<>>) =>
        /\ result.err = "none"
        /\ result.score = Zero
        /\ result.item_count = 0
        /\ result.scored_items = <<>>
        /\ result.label \in LowestTiers(thresholds)
        /\ thresholds = DEFAULT_LABEL_THRESHOLDS => result.label = "low"

\* The empty list was scored under thresholds whose lowest tier is medium.
C7_Witness ==
    /\ Scored
    /\ classified = <<>>
    /\ thresholds = MediumFirstThresholds
    /\ result.label = "medium"

\* The positions of the items without severity_weight.
MissingAt(items) == {i \in 1 .. Len(items) : ~HasSeverity(items[i])}

\* float() accepts x.
Convertible(x) == IsFloat(x) \/ (x.k = "str" /\ x.s \in {"0.7", "1e3", "nan"})

ConvertibleItem(raw) ==
    /\ HasSeverity(raw)
    /\ Convertible(raw["severity_weight"])
    /\ Convertible(ConfidenceOf(raw))

ConversionErrors == {"ValueError", "TypeError", "OverflowError"}

\* C9: if any item lacks severity_weight, at whatever position, scoring ends
\* with the missing-field error (KeyError) and returns no result.
C9_MissingFieldError ==
    (Scored /\ MissingAt(classified) # {}) => result.err = "KeyError"

\* C9 as amended: scoring then ends with an error and returns no result; the
\* error is the missing-field error when every item before the first one
\* without severity_weight holds values float() accepts, and else the
\* conversion error of the first item that does not.
C9_MissingFieldOrEarlierError ==
    (Scored /\ MissingAt(classified) # {}) =>
        LET first == CHOOSE i \in MissingAt(classified) :
                        \A j \in MissingAt(classified) : i <= j
            earlier == \A j \in 1 .. (first - 1) : ConvertibleItem(classified[j])
        IN  /\ result.err # "none"
            /\ result.scored_items = <<>>
            /\ earlier => result.err = "KeyError"
            /\ ~earlier => result.err \in ConversionErrors

\* Two well-formed findings and then one without severity_weight were scored.
C9_Witness ==
    /\ Scored
    /\ Len(classified) = 3
    /\ MissingAt(classified) = {3}
    /\ result.err = "KeyError"

\* C10: scoring never rejects an item because of the value of its
\* severity_weight or confidence: out of range or not numeric, the value is
\* coerced and a result is returned, no error is raised.
C10_NeverRejected ==
    (Scored /\ MissingAt(classified) = {}) => result.err = "none"

\* C10 as amended: a number outside [0,1] (infinite ones included) and a
\* numeric string are never rejected: a result is returned, and the
\* contribution of an item whose values are not NaN lies in [0,1]; a value
\* float() cannot convert ends scoring with float()'s error.
C10_ClampedOrConversionError ==
    (Scored /\ MissingAt(classified) = {}) =>
        IF \A k \in 1 .. Len(classified) : ConvertibleItem(classified[k])
        THEN /\ result.err = "none"
             /\ Len(result.scored_items) = Len(classified)
             /\ \A k \in 1 .. Len(classified) :
                   \/ ToFloat(classified[k]["severity_weight"]).val.k = "nan"
                   \/ ToFloat(ConfidenceOf(classified[k])).val.k = "nan"
                   \/ InRange(result.scored_items[k]["contribution"], Zero, One)
        ELSE result.err \in ConversionErrors

\* A list holding the out-of-range finding (1.5, 2.0) and the numeric string
\* "0.7" was scored: each was clamped or parsed, and a result returned.
C10_Witness ==
    /\ Scored
    /\ result.err = "none"
    /\ \E k \in 1 .. Len(classified) :
          /\ classified[k] = FindingC("phone", Fin(3, 2), Fin(2, 1))
          /\ result.scored_items[k]["contribution"] = One
    /\ \E k \in 1 .. Len(classified) :
          /\ classified[k] = Finding("phone", PyStr("0.7"))
          /\ result.scored_items[k]["contribution"]
                = FMul(Fin(7, 10), default_confidence)

(***************************************************************************)
(* Properties of risk_label_for_score (specification SpecLabel).           *)
(***************************************************************************)
TierRank(t) == CHOOSE i \in 1 .. Len(RiskLabels) : RiskLabels[i] = t

\* The positions of th whose threshold the score meets or exceeds.
Met(score, th) == {i \in 1 .. Len(th) : FGe(score, th[i][2])}

\* C8: the label is the tier with the highest threshold the score meets or
\* exceeds; of two met tiers with that same threshold the higher one in the
\* order low < medium < high < critical; the lowest-threshold tier when no
\* threshold is met.
C8_HighestMetTier ==
    pc = "labelled" =>
        LET met == Met(label_score, thresholds)
            top == {i \in met : \A j \in met : FLe(thresholds[j][2], thresholds[i][2])}
        IN  IF met = {} THEN label \in LowestTiers(thresholds)
            ELSE /\ \E i \in top : label = thresholds[i][1]
                 /\ \A i \in top : TierRank(thresholds[i][1]) <= TierRank(label)

\* What the code does on a tie: of the met tiers with the highest threshold,
\* the one inserted last into the mapping.
C8_LastInsertedOnTie ==
    pc = "labelled" =>
        LET met == Met(label_score, thresholds)
            top == {i \in met : \A j \in met : FLe(thresholds[j][2], thresholds[i][2])}
        IN  IF met = {} THEN label \in LowestTiers(thresholds)
            ELSE label = thresholds[Max(top)][1]


(***************************************************************************)
(* Properties of the classification module (specification SpecPolicy).     *)
(***************************************************************************)
\* The validity predicate of a policy: weights in [0,1], rationales not
\* empty, only the known PII types as keys.
ValidPolicy(policy) ==
    /\ PolicyValid(policy)
    /\ DOMAIN policy \subseteq KnownTypes

Returned(op) == policy_call.op = op /\ policy_call.err = "none"

\* C11: every policy that merge or load returns satisfies the validity
\* predicate (weights in [0,1], rationales non-empty, only known types).
C11_ReturnedPolicyValid ==
    (Returned("merge") \/ Returned("load"))
    => ValidPolicy(policy_objects[policy_call.ret])

\* The part of C11 the code keeps: what merge or load returns has every
\* weight in [0,1] and every rationale non-empty, and what load returns has
\* only known types.
C11_WeightsAndRationalesValid ==
    /\ (Returned("merge") \/ Returned("load"))
       => PolicyValid(policy_objects[policy_call.ret])
    /\ Returned("load")
       => DOMAIN policy_objects[policy_call.ret] \subseteq KnownTypes

\* The entry of policy for the type of item, joined to the fields of item.
ClassifiedAs(item, policy) ==
    [type |-> item.type, value |-> item.value, file |-> item.file,
     line_number |-> item.line_number,
     risk_level |-> policy[item.type].risk_level,
     severity_weight |-> policy[item.type].severity_weight,
     rationale |-> policy[item.type].rationale]

\* The scenario's policy: the default policy with email severity 0.10.
EmailOverride ==
    [email |-> PiiRiskProfile("medium", Fin(10, 100), "Low impact here.")]

\* C12: for every match and every valid policy containing the match's type,
\* the classified record carries the risk level, severity weight and
\* rationale of the entry for that type in the policy passed to the call and
\* the match's own fields unchanged; an email classified under the default
\* policy merged with an email override of 0.10 reports 0.10.
C12_ClassifiedFromPolicy ==
    LET policy == policy_call.policy
        arg == policy_call.arg
    IN  /\ (/\ policy_call.op = "classify_pii_dict"
            /\ PolicyValid(policy)
            /\ arg.type \in DOMAIN policy)
           => /\ policy_call.err = "none"
              /\ policy_call.ret = ClassifiedAs(arg, policy)
              /\ (arg.type = "email" /\ policy = Overlay(DEFAULT_POLICY, EmailOverride))
                 => policy_call.ret.severity_weight = Fin(10, 100)
        /\ (/\ policy_call.op = "classify_pii_dicts"
            /\ PolicyValid(policy)
            /\ \A i \in 1 .. Len(arg) : arg[i].type \in DOMAIN policy)
           => /\ policy_call.err = "none"
              /\ Len(policy_call.ret) = Len(arg)
              /\ \A i \in 1 .. Len(arg) :
                    policy_call.ret[i] = ClassifiedAs(arg[i], policy)

\* An email was classified under the policy a merge of the default policy
\* with the email override returned, and reports 0.10.
C12_Witness ==
    /\ policy_call.op = "classify_pii_dict"
    /\ policy_call.arg.type = "email"
    /\ \E r \in 2 .. Len(policy_objects) : policy_objects[r] = policy_call.policy
    /\ policy_call.policy = Overlay(DEFAULT_POLICY, EmailOverride)
    /\ policy_call.err = "none"
    /\ policy_call.ret.severity_weight = Fin(10, 100)

\* C13: merge returns a new mapping whose entry for each type is that of
\* overrides when overrides has the type and that of base otherwise; it
\* leaves base, overrides and every other policy as they were, so after any
\* sequence of merges the default policy classifies with the default weights.
C13_MergeOverlaysAndKeeps ==
    /\ Returned("merge")
       => /\ policy_call.ret = Len(policy_call.before) + 1
          /\ policy_objects[policy_call.ret]
                = Overlay(policy_call.policy, policy_call.arg)
    /\ policy_call.op = "merge"
       => /\ \A r \in 1 .. Len(policy_call.before) :
                policy_objects[r] = policy_call.before[r]
          /\ policy_call.before[policy_call.base] = policy_call.policy
    /\ pc \in {"policy", "policy_called"}
       => /\ policy_objects[1] = DEFAULT_POLICY
          /\ \A item \in PolicyItems :
                item.type \in KnownTypes =>
                   classify_pii_dict(item, policy_objects[1]).item.severity_weight
                      = (CASE item.type = "email" -> Fin(50, 100)
                           [] item.type = "phone" -> Fin(70, 100)
                           [] OTHER -> Fin(95, 100))

\* After an earlier merge, a merge of the default policy with overrides that
\* change it has returned a third mapping.
C13_Witness ==
    /\ Returned("merge")
    /\ policy_call.base = 1
    /\ Len(policy_call.before) = 2
    /\ policy_call.ret = 3
    /\ policy_objects[2] # policy_objects[1]
    /\ policy_objects[3] # policy_objects[1]

\* The items' types are keys of the policy.
Covers(policy, items) == \A i \in 1 .. Len(items) : items[i].type \in DOMAIN policy

\* The policy's tiers for the items are among low, medium, high, critical.
TiersKnown(policy, items) ==
    \A i \in 1 .. Len(items) :
       \E k \in 1 .. Len(RiskLevelOrder) :
          RiskLevelOrder[k] = policy[items[i].type].risk_level

\* level is the highest of the policy tiers of the items, low with no item.
HighestTier(level, policy, items) ==
    IF items = <<>> THEN level = "low"
    ELSE /\ \E i \in 1 .. Len(items) : level = policy[items[i].type].risk_level
         /\ \A i \in 1 .. Len(items) :
               TierRank(policy[items[i].type].risk_level) <= TierRank(level)

Consecutive(recs, start_line) ==
    \A k \in 1 .. Len(recs) : recs[k].line_number = start_line + k - 1

\* recs are the records of lines, a source's lines in input order: one per line, with
\* the line's text.
OfLines(recs, lines, keep_newline) ==
    /\ Len(recs) = Len(lines)
    /\ \A k \in 1 .. Len(lines) :
          recs[k].line = IF keep_newline THEN lines[k]
                            ELSE RStripNewlines(lines[k])

\* The paths scan_paths reads: all of them up to the first that raises, the
\* missing ones left out when they are skipped.
RECURSIVE SourcesRead(_, _)
SourcesRead(paths, skip_missing) ==
    IF paths = <<>> THEN <<>>
    ELSE IF files[Head(paths)].exists
         THEN <<Head(paths)>> \o SourcesRead(Tail(paths), skip_missing)
         ELSE IF skip_missing THEN SourcesRead(Tail(paths), skip_missing)
              ELSE <<>>

RECURSIVE LinesBefore(_, _)
LinesBefore(sources, i) ==
    IF i = 1 THEN 0
    ELSE LinesBefore(sources, i - 1)
         + Len(StreamLines(files[sources[i - 1]].content))

\* C15: the records of one source carry the consecutive line numbers
\* start_line, start_line + 1, ... in input order; with several sources, all
\* records of an earlier source precede those of a later one and the
\* numbering restarts at start_line for each source.
C15_ConsecutivePerSource ==
    /\ (scan_call.op = "scan_bytes" /\ scan_call.err = "none")
       => /\ Consecutive(scan_call.records, scan_call.start_line)
          /\ OfLines(scan_call.records,
                     SplitLines(scan_call.text, scan_call.keep_newline),
                     scan_call.keep_newline)
    /\ (scan_call.op = "scan_text_stream" /\ scan_call.err = "none")
       => /\ Consecutive(scan_call.records, scan_call.start_line)
          /\ OfLines(scan_call.records, StreamLines(scan_call.text),
                     scan_call.keep_newline)
    /\ (scan_call.op = "scan_paths" /\ scan_call.start_line >= 1)
       => LET sources == SourcesRead(scan_call.paths, scan_call.skip_missing)
              total == LinesBefore(sources, Len(sources) + 1)
              part(i) == SubSeq(scan_call.records,
                                LinesBefore(sources, i) + 1,
                                LinesBefore(sources, i + 1))
          IN  /\ Len(scan_call.records) = total
              /\ \A i \in 1 .. Len(sources) :
                    /\ \A k \in 1 .. Len(part(i)) : part(i)[k].filename = sources[i]
                    /\ Consecutive(part(i), scan_call.start_line)
                    /\ OfLines(part(i), StreamLines(files[sources[i]].content),
                               scan_call.keep_newline)

\* Two files of several lines each were scanned in one call from start_line
\* 5: the records of the second file start at 5 again.
C15_Witness ==
    /\ scan_call.op = "scan_paths"
    /\ scan_call.err = "none"
    /\ scan_call.start_line = 5
    /\ Len(scan_call.paths) = 2
    /\ scan_call.paths[1] # scan_call.paths[2]
    /\ Len(scan_call.records) >= 4
    /\ \E k \in 2 .. Len(scan_call.records) - 1 :
          /\ scan_call.records[k].filename = scan_call.paths[1]
          /\ scan_call.records[k].line_number > 5
          /\ scan_call.records[k + 1].filename = scan_call.paths[2]
          /\ scan_call.records[k + 1].line_number = 5

(***************************************************************************)
(* Properties of the TTL store called by one caller (SpecStore).           *)
(***************************************************************************)
\* The adds that stored the payload p.
AddsOf(p) == {i \in 1 .. Len(added) : added[i].payload = p}

\* C16: get never returns the payload of an entry whose age (now minus its
\* stored_at) is greater than or equal to its ttl_seconds, and never that of
\* an entry added with ttl 0; get_all_non_expired lists no such entry either.
C16_NoExpiredPayload ==
    /\ (store_call.op = "get" /\ store_call.ret # None)
       => /\ AddsOf(store_call.ret) # {}
          /\ \A i \in AddsOf(store_call.ret) :
                /\ store_call.at - added[i].stored_at < added[i].ttl_seconds
                /\ added[i].ttl_seconds # 0
    /\ store_call.op = "get_all_non_expired"
       => \A k \in 1 .. Len(store_call.ret) :
             \A i \in AddsOf(store_call.ret[k][2]) :
                store_call.at - added[i].stored_at < added[i].ttl_seconds

\* An entry was added with ttl 2 and a get of its id two seconds after the
\* add returned None.
C16_Witness ==
    /\ store_call.op = "get"
    /\ store_call.ret = None
    /\ \E i \in 1 .. Len(added) :
          /\ added[i].scan_id = store_call.arg
          /\ ~added[i].cleared
          /\ added[i].ttl_seconds = 2
          /\ store_call.at - added[i].stored_at = 2

\* The adds under scan_id whose entry is within its TTL at time t and was not
\* cleared.
LiveAdds(scan_id, t) ==
    {i \in 1 .. Len(added) :
        /\ added[i].scan_id = scan_id
        /\ ~added[i].cleared
        /\ t - added[i].stored_at < added[i].ttl_seconds}

\* C17: after an add has returned an id, every get of that id made while less
\* than ttl seconds have passed since that add returns that add's payload,
\* whatever other add and get calls happen in between, clear not being called.
C17_GetReturnsAddedPayload ==
    store_call.op = "get"
    => \A i \in LiveAdds(store_call.arg, store_call.at) :
          store_call.ret = added[i].payload

\* What the code does: get returns the payload of the oldest add under that
\* id that is still within its TTL, and None when there is none; and pruning
\* removes expired entries only: the list holds exactly the adds that are
\* within their TTL as of the last prune, in the order they were made.
C17_OldestLiveAddWins ==
    /\ store_call.op = "get"
       => LET live == LiveAdds(store_call.arg, store_call.at)
          IN  IF live = {} THEN store_call.ret = None
              ELSE store_call.ret
                     = added[CHOOSE i \in live : \A j \in live : i <= j].payload
    /\ pc = "store"
       => \A i \in 1 .. Len(added) :
             (~added[i].cleared /\ clock - added[i].stored_at < added[i].ttl_seconds)
             => \E k \in 1 .. Len(_storage) :
                   _storage[k] = Entry(added[i].scan_id, added[i].stored_at,
                                       added[i].ttl_seconds, added[i].payload)

\* C18: when add and get calls of parallel threads interleave at the store's
\* reads and writes of its entry list, no entry that was added and has not
\* expired is lost: it is still in the list, and a get of its id that begins
\* after the add has returned and ends within the entry's TTL returns its
\* payload.
C18_NoLiveEntryLost ==
    pc = "store_threads"
    => /\ \A i \in 1 .. Len(added) :
             clock - added[i].stored_at < added[i].ttl_seconds
             => \E k \in 1 .. Len(_storage) :
                   _storage[k].scan_id = added[i].scan_id
       /\ \A t \in ThreadIds :
             (threads[t].op = "get" /\ threads[t].at = "idle")
             => \A i \in 1 .. threads[t].began :
                   ( /\ added[i].scan_id = threads[t].arg
                     /\ threads[t].now - added[i].stored_at < added[i].ttl_seconds )
                   => threads[t].ret = added[i].payload

\* Where a path of item positions leads from a value: the value found there,
\* how many of the steps went through the value key of a mapping and whether
\* the last one did, and whether every step went through a mapping, list or
\* tuple.
RECURSIVE Walk(_, _, _)
Walk(heap, val, path) ==
    IF path = <<>>
    THEN [found |-> TRUE, val |-> val, values |-> 0, last |-> FALSE, walked |-> TRUE]
    ELSE IF val.ref = 0 \/ Head(path) > Len(heap[val.ref].items)
    THEN [found |-> FALSE, val |-> val, values |-> 0, last |-> FALSE, walked |-> TRUE]
    ELSE LET cell == heap[val.ref]
             item == cell.items[Head(path)]
             rest == Walk(heap, item[2], Tail(path))
             here == IF cell.kind = "dict" /\ item[1] = PII_VALUE_KEY THEN 1 ELSE 0
         IN  [found |-> rest.found, val |-> rest.val,
              values |-> rest.values + here,
              last |-> IF Tail(path) = <<>> THEN here = 1 ELSE rest.last,
              walked |-> rest.walked /\ cell.kind \in {"dict", "list", "tuple"}]

RECURSIVE LogPaths(_)
LogPaths(n) ==
    IF n = 0 THEN {<<>>}
    ELSE LET shorter == LogPaths(n - 1)
         IN  shorter \cup {<<i>> \o q : i \in {1, 2}, q \in shorter}

\* the keys of a cell's items, in order
KeysOf(cell) == [i \in 1 .. Len(cell.items) |-> cell.items[i][1]]

\* C19: the result of sanitize_for_log has the shape of the input: at every
\* place reached through mappings, lists and tuples and not through a value
\* key, a container of the input is a container of the same type with the
\* same keys and a non-container is the same value; under the value key of
\* every mapping reached so stands the placeholder; the input is unchanged.
C19_SanitizedCopy ==
    pc = "logged"
    => /\ \A p \in LogPaths(MaxCells + 1) :
             LET i == Walk(log_call.before, log_call.obj, p)
                 o == Walk(log_heap, log_call.val, p)
             IN  /\ (i.found /\ i.walked /\ i.values = 0)
                    => /\ o.found
                       /\ IF i.val.ref = 0 THEN o.val = i.val
                          ELSE /\ o.val.ref # 0
                               /\ log_heap[o.val.ref].kind
                                    = log_call.before[i.val.ref].kind
                               /\ KeysOf(log_heap[o.val.ref])
                                    = KeysOf(log_call.before[i.val.ref])
                 /\ (i.found /\ i.walked /\ i.values = 1 /\ i.last)
                    => /\ o.found
                       /\ o.val = Primitive(REDACTED_PLACEHOLDER)
       /\ \A r \in 1 .. Len(log_call.before) : log_heap[r] = log_call.before[r]

\* A structure three containers deep was sanitized: a value key was reached
\* through a tuple and another mapping, and something else stood next to it.
C19_Witness ==
    /\ pc = "logged"
    /\ \E p \in LogPaths(MaxCells) :
          LET i == Walk(log_call.before, log_call.obj, p)
          IN  /\ Len(p) = MaxCells
              /\ i.found /\ i.walked /\ i.values = 1 /\ i.last
              /\ i.val # Primitive(REDACTED_PLACEHOLDER)
    /\ \E r \in 1 .. Len(log_call.before) : log_call.before[r].kind = "tuple"
    /\ Len(log_heap) = 2 * Len(log_call.before)

\* the domain of an email value: what follows its first @, in lower case
DomainOf(value) ==
    LET at == CHOOSE i \in 1 .. Len(value) :
                 value[i] = "@" /\ \A j \in 1 .. i - 1 : value[j] # "@"
    IN  LowerAll(SubSeq(value, at + 1, Len(value)))

\* every digit the same, or every digit one more than the one before it
\* (0 after 9)
RepeatingOrAscending(digits) ==
    \/ \A i \in 1 .. Len(digits) - 1 : digits[i + 1] = digits[i]
    \/ \A i \in 1 .. Len(digits) - 1 :
          \E a \in 0 .. 9 : digits[i] = ToString(a)
                            /\ digits[i + 1] = ToString((a + 1) % 10)

\* no digit equal to its neighbour or next to it in the count
NoDigitPattern(digits) ==
    \A i \in 1 .. Len(digits) - 1 :
       \A a \in 0 .. 9 :
          digits[i] = ToString(a)
          => digits[i + 1] \notin {ToString(a), ToString((a + 1) % 10),
                                   ToString((a + 9) % 10)}

\* finding i of the last call is the placeholder and finding j the genuine
\* looking one of a pair the claim compares
Compared(i, j) ==
    LET a == validator_call.pii[i]
        b == validator_call.pii[j]
    IN  IF a.type = "email"
        THEN /\ DomainOf(a.value) \in DummyEmailDomains
             /\ DomainOf(b.value) \notin DummyEmailDomains
             /\ a.value[1] = b.value[1]
        ELSE /\ RepeatingOrAscending(a.value)
             /\ NoDigitPattern(b.value)

\* C20: for one context sentence and the same other signals, an email with a
\* placeholder domain gets a lower confidence than an email with another
\* domain, and a phone or ID number with a repeating or ascending digit
\* pattern gets a lower confidence than one without.
C20_PlaceholderLowersConfidence ==
    pc = "validated"
    => \A i \in {1, 2}, j \in {1, 2} :
          Compared(i, j)
          => validator_call.out[i].confidence < validator_call.out[j].confidence

\* What the code lowers is the score: the placeholder of such a pair scores
\* at least two points less, and the confidence returned is that of the
\* verdict drawn from the score, 85 hundredths for "dummy" as for "real".
C20_PlaceholderLowersScore ==
    pc = "validated"
    => /\ \A i \in {1, 2}, j \in {1, 2} :
             Compared(i, j)
             => validator_call.out[i].score + 2 <= validator_call.out[j].score
       /\ \A i \in {1, 2} :
             LET o == validator_call.out[i]
             IN  /\ o.verdict = "dummy" <=> o.score <= -2
                 /\ o.verdict = "real" <=> o.score >= 2
                 /\ o.verdict \in {"dummy", "real"} => o.confidence = 85
                 /\ o.verdict = "uncertain" => o.confidence = 50 + 10 * o.score

\* C21: when no pipeline is injected and the library is not installed or the
\* model cannot be loaded, the validator still returns for every finding a
\* confidence between 0 and 1 (0 and 100 hundredths); it never ends with an
\* error.
C21_FallsBackWithoutNlp ==
    ( /\ pc \in {"validated", "validator_raised"}
      /\ ~validator_call.injected
      /\ (~validator_call.installed \/ ~validator_call.loadable) )
    => /\ validator_call.err = "none"
       /\ Len(validator_call.out) = Len(validator_call.pii)
       /\ \A i \in 1 .. Len(validator_call.out) :
             validator_call.out[i].confidence \in 0 .. 100

\* What the code does: the fallback works when the library is there and only
\* the model is missing, and a missing library ends the call with
\* ModuleNotFoundError.
C21_FallsBackOnlyWithLibrary ==
    ( /\ pc \in {"validated", "validator_raised"}
      /\ ~validator_call.injected )
    => IF validator_call.installed
       THEN /\ validator_call.err = "none"
            /\ Len(validator_call.out) = Len(validator_call.pii)
            /\ \A i \in 1 .. Len(validator_call.out) :
                  validator_call.out[i].confidence \in 0 .. 100
       ELSE validator_call.err = "ModuleNotFoundError"

\* The raw lines the stream of the last scan_text_stream call yielded.
RawLines ==
    IF scan_call.op = "scan_string_io" THEN NewlineLines(scan_call.text)
    ELSE StreamLines(scan_call.text)

\* A line without its one terminator: the CR LF, or the "\n" or the "\r", at
\* which the stream ended it.
WithoutTerminator(raw) ==
    IF Len(raw) >= 2 /\ SubSeq(raw, Len(raw) - 1, Len(raw)) = <<"\r", "\n">>
    THEN SubSeq(raw, 1, Len(raw) - 2)
    ELSE IF raw # <<>> /\ raw[Len(raw)] \in {"\n", "\r"}
         THEN SubSeq(raw, 1, Len(raw) - 1)
         ELSE raw

\* C22: with keep_newline false, scan_text_stream removes from each line
\* exactly one trailing line terminator and nothing else: carriage returns or
\* newlines that precede the terminator are kept in the record's text.
C22_OneTerminatorRemoved ==
    ( /\ scan_call.op \in {"scan_text_stream", "scan_string_io"}
      /\ scan_call.err = "none"
      /\ ~scan_call.keep_newline )
    => /\ Len(scan_call.records) = Len(RawLines)
       /\ \A k \in 1 .. Len(RawLines) :
             scan_call.records[k].line = WithoutTerminator(RawLines[k])

\* What the code does: the record's text is the raw line without all of its
\* trailing carriage returns and newlines, however many there are.
C22_EveryTrailingBreakRemoved ==
    ( /\ scan_call.op \in {"scan_text_stream", "scan_string_io"}
      /\ scan_call.err = "none"
      /\ ~scan_call.keep_newline )
    => /\ Len(scan_call.records) = Len(RawLines)
       /\ \A k \in 1 .. Len(RawLines) :
             LET line == scan_call.records[k].line
                 raw == RawLines[k]
             IN  /\ Len(line) <= Len(raw)
                 /\ line = SubSeq(raw, 1, Len(line))
                 /\ \A i \in Len(line) + 1 .. Len(raw) : raw[i] \in {"\r", "\n"}
                 /\ line = <<>> \/ line[Len(line)] \notin {"\r", "\n"}

\* The (line_number, line) pairs of a sequence of records.
NumberedLines(recs) ==
    [i \in 1 .. Len(recs) |-> <<recs[i].line_number, recs[i].line>>]

\* scan_path on a file that holds the text of the last scan_bytes call, with
\* the call's start_line and keep_newline.
PathScanOfText ==
    scan_path([p \in {"held.txt"} |->
                  [exists |-> TRUE, content |-> scan_call.text]],
              "held.txt", scan_call.keep_newline, scan_call.start_line)

\* C25: scan_bytes on a content yields the same sequence of (line_number,
\* line) records as scan_path on a file holding that content, with the same
\* start_line and keep_newline, also when the content holds a lone carriage
\* return, a form feed or a Unicode line separator.
C25_BytesAgreeWithPath ==
    scan_call.op = "scan_bytes"
    => /\ scan_call.err = PathScanOfText.err
       /\ NumberedLines(scan_call.records) = NumberedLines(PathScanOfText.records)

\* What the code does: the two agree on contents whose only line boundaries
\* are "\n", "\r" and "\r\n"; at a form feed or a line separator scan_bytes
\* (str.splitlines) ends a line and scan_path (file iteration) does not.
C25_AgreeOnNewlinesOnly ==
    scan_call.op = "scan_bytes"
    => /\ scan_call.err = PathScanOfText.err
       /\ (\A i \in 1 .. Len(scan_call.text) :
              scan_call.text[i] \notin {"\f", LINE_SEPARATOR})
          => NumberedLines(scan_call.records)
               = NumberedLines(PathScanOfText.records)
       /\ ( /\ scan_call.err = "none"
            /\ \E i \in 1 .. Len(scan_call.text) :
                  scan_call.text[i] \in {"\f", LINE_SEPARATOR} )
          => Len(scan_call.records) > Len(PathScanOfText.records)

\* session t has finished a rerun without a click that found a scan id in
\* the session state
RerunDone(t) ==
    /\ pc = "app"
    /\ threads[t].at = "idle"
    /\ threads[t].op = "rerun"
    /\ threads[t].arg # None

\* the adds that returned the scan id of session t's last rerun and whose
\* entry was within its TTL when the rerun read the clock
WithinTtlAtRerun(t) ==
    {i \in 1 .. Len(added) :
        /\ added[i].scan_id = threads[t].arg
        /\ threads[t].now - added[i].stored_at < added[i].ttl_seconds}

SessionHoldsIdOnly ==
    \A t \in Sessions :
       session_state[t] \in {None} \cup {added[i].scan_id : i \in 1 .. Len(added)}

\* C23: on every rerun without a click the results of the last scan are on
\* the page if and only if the stored entry for the session's scan id is
\* within its TTL; when it is not, the scan id is removed from the session
\* state, which holds the scan id and never the results.
C23_ShownIffWithinTtl ==
    /\ \A t \in Sessions :
          RerunDone(t)
          => IF WithinTtlAtRerun(t) # {}
             THEN /\ shown[t].kind = "results"
                  /\ \A i \in WithinTtlAtRerun(t) : shown[t].payload = added[i].payload
             ELSE /\ shown[t].kind = "info"
                  /\ session_state[t] = None
    /\ pc = "app" => SessionHoldsIdOnly

\* What the code does: the same holds as long as no two sessions' reruns
\* have run at the same time.
C23_ShownIffWithinTtlAlone ==
    /\ \A t \in Sessions :
          (RerunDone(t) /\ ~overlapped)
          => IF WithinTtlAtRerun(t) # {}
             THEN /\ shown[t].kind = "results"
                  /\ \A i \in WithinTtlAtRerun(t) :
                        shown[t].payload = added[i].payload
             ELSE /\ shown[t].kind = "info"
                  /\ session_state[t] = None
    /\ pc = "app" => SessionHoldsIdOnly

====
